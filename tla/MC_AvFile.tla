------------------------------ MODULE MC_AvFile ------------------------------
EXTENDS AvFile
=============================================================================
