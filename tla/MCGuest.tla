------------------------------ MODULE MCGuest ------------------------------
EXTENDS Guest
CONSTANTS failed, pending, none
=============================================================================
