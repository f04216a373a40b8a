----------------------------- MODULE MCBackends -----------------------------
EXTENDS Backends

CONSTANTS peer1, peer2

TwoPeers == {peer1, peer2}
OnePeer == {peer1}
=============================================================================
