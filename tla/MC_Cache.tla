------------------------------ MODULE MC_Cache ------------------------------
EXTENDS Cache

CONSTANTS here, peer

ThePeers == {peer}
ThePool == {here, peer}
=============================================================================
