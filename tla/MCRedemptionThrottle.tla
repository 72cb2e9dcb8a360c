-------------------- MODULE MCRedemptionThrottle --------------------
EXTENDS RedemptionThrottle
=====================================================================
