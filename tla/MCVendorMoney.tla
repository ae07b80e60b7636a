---------------------------- MODULE MCVendorMoney ----------------------------
EXTENDS VendorMoney
CONSTANTS v1, d1, o1, p1, p2, sweeper, trigger, t1, t2
=============================================================================
