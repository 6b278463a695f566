------------------------------ MODULE MCOrders ------------------------------
\* Instances of Orders: one signing session and one that only watches, or two that sign.
EXTENDS Orders
=============================================================================
