------------------------- MODULE MCLocalService --------------------------
EXTENDS LocalService
ThreePorts == 1..3
==========================================================================
