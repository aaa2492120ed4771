--------------------------- MODULE MCTaskDelivery ---------------------------
EXTENDS TaskDelivery, TLC
=============================================================================
