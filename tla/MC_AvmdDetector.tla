-------------------------- MODULE MC_AvmdDetector --------------------------
EXTENDS AvmdDetector
=============================================================================
