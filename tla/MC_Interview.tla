---------------------------- MODULE MC_Interview ----------------------------
EXTENDS Interview

MCHost == {"dng.example.com"}
MCAddr == {"lan"}
MCTyped == {"dng.example.com", "dng"}
MCCount == {-1, 0, 2}
MCVersion == {<<3, 3, 0>>}
=============================================================================
