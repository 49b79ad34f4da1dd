------------------------------ MODULE MCRedis ------------------------------
EXTENDS RedisTracker
CONSTANTS p1, p2
=============================================================================
