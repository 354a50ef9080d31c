---------------------------- MODULE MC_Membership ----------------------------
EXTENDS Membership
MCNodes == {1, 2, 4}
=============================================================================
