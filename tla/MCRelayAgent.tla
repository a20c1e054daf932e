---------------------------- MODULE MCRelayAgent ----------------------------
\* RelayAgent for model checking.  Configurations that drop a peer, give its
\* address to another, move the relay's own address onto a peer's old one, and
\* one that is not valid.
EXTENDS RelayAgent

CONSTANTS k1, k2, k3, ip1, ip2, ip3

MCPeer(key, ip) == [key |-> key, ip |-> ip]

MCConfig == {[address |-> ip1, peers |-> <<MCPeer(k1, ip2), MCPeer(k2, ip3)>>],
             [address |-> ip1, peers |-> <<MCPeer(k3, ip3)>>],
             [address |-> ip2, peers |-> <<MCPeer(k2, ip3)>>],
             [address |-> ip1, peers |-> <<MCPeer(k1, ip2), MCPeer(k1, ip3)>>]}

=============================================================================
