---------------------------- MODULE MCSdkSession ----------------------------
\* Instances of SdkSession for TLC.
EXTENDS SdkSession
=============================================================================
