-------------------------- MODULE MCChannelMonitor --------------------------
EXTENDS MCChannelDance, ChannelMonitor
=============================================================================
