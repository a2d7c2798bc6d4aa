\* Two Join streams of one model endpoint under its serve lifecycle: three routes, of which
\* one has no adapter and one records actions, and a budget of two bytes.
SPECIFICATION FairSpec
CONSTANTS
 s1=s1 s2=s2 a=a b=b c=c e1=e1 e2=e2 None=None
 Streams={s1,s2}
 Routes={a,b,c}
 Raw={c}
 Records={b}
 Episodes={e1,e2}
 LaneBytes<-MCLaneBytes
 Limit=2
 Fuses=TRUE
 Permits=2
 Scripts<-MCScripts
 Deployments<-MCDeployments
INVARIANTS TypeOK RouteOrder AdaptedAsResolved HeldAccounted BudgetKept 
PROPERTIES AdmittedAreServed ShutdownCompletes IdleIsExact
CHECK_DEADLOCK FALSE
