------------------------------ MODULE MC_Dialog ------------------------------
EXTENDS Dialog
=============================================================================
