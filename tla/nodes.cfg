CONSTANTS
 P1=P1
 P2=P2
 O1=O1
 O2=O2
 Peers={P1,P2}
 Observers={O1,O2}
 Trunk=Trunk
 Other=Other
 Branches={Trunk,Other}
 Nobody=Nobody
 MaxConns=3
 MaxLinks=4
 MaxBlocks=1
 MaxRetries=2
 MaxHeight=2
 Window=1
 Windows=2
 MaxConnects=2
 ForkHeight=1
SPECIFICATION Spec
INVARIANTS TimersAreListed StatusOfServed AsksWhatPeerHas PanicsOnlyOnFork ServesAscending
PROPERTIES NodeCatchesUp 
CHECK_DEADLOCK FALSE
