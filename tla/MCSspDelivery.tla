--------------------------- MODULE MCSspDelivery ----------------------------
EXTENDS SspDelivery
=============================================================================
