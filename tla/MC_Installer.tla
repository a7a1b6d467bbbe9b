---------------------------- MODULE MC_Installer ----------------------------
EXTENDS Installer

AllDistros == {"ubuntu", "debian", "rhel", "other"}
=============================================================================
