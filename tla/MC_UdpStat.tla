----------------------------- MODULE MC_UdpStat -----------------------------
EXTENDS UdpStat, TLC
=============================================================================
