----------------------- MODULE SessionRegistryProofs -----------------------
(* What holds of the session registry for any number of users, sessions    *)
(* and concurrent lock requests.                                           *)
EXTENDS SessionRegistry, TLAPS

USE OwnerAssumption, NoneAssumption

\* A request thread at rest is a request thread.
LEMMA RestIsRequest ==
    ASSUME NEW request \in Request
    PROVE  Rest(request) \in Request /\ Rest(request).seen = {} /\ Rest(request).pc = "idle"
  BY DEF Rest, Request, SetRef

\* The variables keep their types, under every interleaving of the
\* callbacks with the lock requests.
THEOREM TypeCorrect == Spec => []TypeOK
<1>1. Init => TypeOK
  BY RestIsRequest DEF Init, TypeOK, SetRef, Unadded, Closing
<1>2. TypeOK /\ [Next]_vars => TypeOK'
  <2> SUFFICES ASSUME TypeOK, [Next]_vars PROVE TypeOK'
    OBVIOUS
  <2> USE DEF TypeOK, SetRef, Unadded, Closing
  <2>1. ASSUME NEW s \in Sessions, Handshake(s) PROVE TypeOK'
    BY <2>1 DEF Handshake
  <2>2. ASSUME NEW s \in Sessions, AddCompute(s) PROVE TypeOK'
    BY <2>2 DEF AddCompute
  <2>3. ASSUME NEW s \in Sessions, AddInsert(s) PROVE TypeOK'
    BY <2>3 DEF AddInsert
  <2>4. ASSUME NEW s \in Sessions, SocketClosed(s) PROVE TypeOK'
    BY <2>4 DEF SocketClosed
  <2>5. ASSUME NEW s \in Sessions, RemoveGet(s) PROVE TypeOK'
    BY <2>5 DEF RemoveGet
  <2>6. ASSUME NEW s \in Sessions, RemoveFromSet(s) PROVE TypeOK'
    BY <2>6 DEF RemoveFromSet
  <2>7. ASSUME NEW s \in Sessions, CheckEmpty(s) PROVE TypeOK'
    BY <2>7 DEF CheckEmpty
  <2>8. ASSUME NEW s \in Sessions, RemoveKey(s) PROVE TypeOK'
    BY <2>8 DEF RemoveKey
  <2>9. ASSUME NEW a \in Admins, NEW u \in Users, NEW locked \in BOOLEAN,
               ToggleLock(a, u, locked)
        PROVE TypeOK'
    BY <2>9 DEF Request, ToggleLock, threadVars
  <2>10. ASSUME NEW a \in Admins, DisconnectGet(a) PROVE TypeOK'
    BY <2>10 DEF Request, DisconnectGet, threadVars
  <2>11. ASSUME NEW a \in Admins, DisconnectCheck(a) PROVE TypeOK'
    <3>1. adm' \in [Admins -> Request] /\ adm'[a].set = adm[a].set
      BY <2>11 DEF DisconnectCheck, Request
    <3>2. \A b \in Admins \ {a} : adm'[b] = adm[b]
      BY <2>11 DEF DisconnectCheck
    <3>3. QED
      BY <2>11, <3>1, <3>2 DEF DisconnectCheck, threadVars
  <2>12. ASSUME NEW a \in Admins, DisconnectIterate(a) PROVE TypeOK'
    BY <2>12 DEF Request, DisconnectIterate, threadVars
  <2>13. ASSUME NEW a \in Admins, NEW s \in Sessions, DisconnectClose(a, s)
         PROVE TypeOK'
    BY <2>13 DEF Request, DisconnectClose
  <2>14. ASSUME NEW a \in Admins, DisconnectRemoveKey(a) PROVE TypeOK'
    <3>1. registry' \in [Users -> SetRef] /\ adm' \in [Admins -> Request]
      BY <2>14 DEF DisconnectRemoveKey, Request
    <3>2. QED
      BY <2>14, <3>1 DEF DisconnectRemoveKey, threadVars
  <2>15. ASSUME NEW a \in Admins, LockCommit(a) PROVE TypeOK'
    <3>1. adm' \in [Admins -> Request] /\ enabled' \in [Users -> BOOLEAN]
      BY <2>15, RestIsRequest DEF LockCommit, Request
    <3>2. adm'[a].pc = "idle" /\ \A b \in Admins \ {a} : adm'[b] = adm[b]
      BY <2>15, RestIsRequest DEF LockCommit
    <3>3. QED
      BY <2>15, <3>1, <3>2 DEF LockCommit, threadVars
  <2>16. ASSUME NEW a \in Admins, LockAbort(a) PROVE TypeOK'
    BY <2>16, RestIsRequest DEF LockAbort, threadVars
  <2>17. CASE UNCHANGED vars
    BY <2>17 DEF vars
  <2>18. QED
    BY <2>1, <2>2, <2>3, <2>4, <2>5, <2>6, <2>7, <2>8, <2>9, <2>10, <2>11,
       <2>12, <2>13, <2>14, <2>15, <2>16, <2>17
    DEF Next, SessionStep, LockStep, DisconnectStep
<1>3. QED
  BY <1>1, <1>2, PTL DEF Spec
LEMMA StepKeepsIInv == IInv /\ TypeOK' /\ [Next]_vars => IInv'
<1> SUFFICES ASSUME IInv, TypeOK', [Next]_vars PROVE IInv'
  OBVIOUS
<1> USE DEF IInv, TypeOK, SetRef, Unadded, Closing
<1>1. ASSUME NEW s \in Sessions, Handshake(s) PROVE IInv'
  <2>1. SetsBelong'
    BY <1>1 DEF Handshake, SetsBelong
  <2>2. MembersAtHome'
    BY <1>1 DEF Handshake, MembersAtHome
  <2>3. LeftForGood'
    BY <1>1 DEF Handshake, LeftForGood
  <2>4. EmptyIsAttended'
    BY <1>1 DEF Handshake, EmptyIsAttended, SessionsOf
  <2>5. LockProgress'
    BY <1>1 DEF Handshake, LockProgress, Request
  <2>6. QED
    BY <2>1, <2>2, <2>3, <2>4, <2>5
<1>2. ASSUME NEW s \in Sessions, AddCompute(s) PROVE IInv'
  <2>1. SetsBelong'
    BY <1>2 DEF AddCompute, SetsBelong
  <2>2. MembersAtHome'
    BY <1>2 DEF AddCompute, MembersAtHome
  <2>3. LeftForGood'
    BY <1>2 DEF AddCompute, LeftForGood, MembersAtHome, SetsBelong
  <2>4. EmptyIsAttended'
    BY <1>2 DEF AddCompute, EmptyIsAttended, SessionsOf
  <2>5. LockProgress'
    BY <1>2 DEF AddCompute, LockProgress, Request
  <2>6. QED
    BY <2>1, <2>2, <2>3, <2>4, <2>5
<1>3. ASSUME NEW s \in Sessions, AddInsert(s) PROVE IInv'
  <2>1. SetsBelong'
    BY <1>3 DEF AddInsert, SetsBelong
  <2>2. MembersAtHome'
    BY <1>3 DEF AddInsert, MembersAtHome
  <2>3. LeftForGood'
    BY <1>3 DEF AddInsert, LeftForGood
  <2>4. EmptyIsAttended'
    <3> SUFFICES ASSUME NEW u \in Users, registry[u] # None,
                        members'[registry[u]] = {}
                 PROVE  (\E t \in SessionsOf(u) :
                            \/ pc[t] = "adding" /\ home[t] = registry[u]
                            \/ pc[t] = "checking" /\ ref[t] = registry[u]
                            \/ pc[t] = "dropping")'
      BY <1>3 DEF AddInsert, EmptyIsAttended
    <3>1. home[s] # registry[u] /\ members[registry[u]] = {}
      <4>1. registry[u] \in Sessions /\ home[s] \in Sessions
        BY <1>3 DEF AddInsert, SetsBelong
      <4>2. members'[home[s]] = members[home[s]] \union {s}
        BY <1>3, <4>1 DEF AddInsert
      <4>3. home[s] # registry[u]
        BY <4>2
      <4>4. QED
        BY <1>3, <4>1, <4>3 DEF AddInsert
    <3>2. PICK t \in SessionsOf(u) :
            \/ pc[t] = "adding" /\ home[t] = registry[u]
            \/ pc[t] = "checking" /\ ref[t] = registry[u]
            \/ pc[t] = "dropping"
      BY <3>1 DEF EmptyIsAttended
    <3>3. t # s /\ pc'[t] = pc[t]
      BY <1>3, <3>1, <3>2 DEF AddInsert, SessionsOf
    <3>4. QED
      BY <1>3, <3>2, <3>3 DEF AddInsert, SessionsOf
  <2>5. LockProgress'
    BY <1>3 DEF AddInsert, LockProgress, Request
  <2>6. QED
    BY <2>1, <2>2, <2>3, <2>4, <2>5
<1>4. ASSUME NEW s \in Sessions, SocketClosed(s) PROVE IInv'
  <2>1. SetsBelong'
    BY <1>4 DEF SocketClosed, SetsBelong
  <2>2. MembersAtHome'
    BY <1>4 DEF SocketClosed, MembersAtHome
  <2>3. LeftForGood'
    BY <1>4 DEF SocketClosed, LeftForGood
  <2>4. EmptyIsAttended'
    BY <1>4 DEF SocketClosed, EmptyIsAttended, SessionsOf
  <2>5. LockProgress'
    BY <1>4 DEF SocketClosed, LockProgress, Request
  <2>6. QED
    BY <2>1, <2>2, <2>3, <2>4, <2>5
<1>5. ASSUME NEW s \in Sessions, RemoveGet(s) PROVE IInv'
  <2>1. SetsBelong'
    BY <1>5 DEF RemoveGet, SetsBelong
  <2>2. MembersAtHome'
    BY <1>5 DEF RemoveGet, MembersAtHome
  <2>3. LeftForGood'
    BY <1>5 DEF RemoveGet, LeftForGood, MembersAtHome, SetsBelong
  <2>4. EmptyIsAttended'
    BY <1>5 DEF RemoveGet, EmptyIsAttended, SessionsOf
  <2>5. LockProgress'
    BY <1>5 DEF RemoveGet, LockProgress, Request
  <2>6. QED
    BY <2>1, <2>2, <2>3, <2>4, <2>5
<1>6. ASSUME NEW s \in Sessions, RemoveFromSet(s) PROVE IInv'
  <2>1. SetsBelong'
    BY <1>6 DEF RemoveFromSet, SetsBelong
  <2>2. MembersAtHome'
    BY <1>6 DEF RemoveFromSet, MembersAtHome
  <2>3. LeftForGood'
    BY <1>6 DEF RemoveFromSet, LeftForGood
  <2>4. EmptyIsAttended'
    BY <1>6 DEF RemoveFromSet, EmptyIsAttended, SessionsOf, SetsBelong
  <2>5. LockProgress'
    BY <1>6 DEF RemoveFromSet, LockProgress, Request
  <2>6. QED
    BY <2>1, <2>2, <2>3, <2>4, <2>5
<1>7. ASSUME NEW s \in Sessions, CheckEmpty(s) PROVE IInv'
  <2>1. SetsBelong'
    BY <1>7 DEF CheckEmpty, SetsBelong
  <2>2. MembersAtHome'
    BY <1>7 DEF CheckEmpty, MembersAtHome
  <2>3. LeftForGood'
    BY <1>7 DEF CheckEmpty, LeftForGood
  <2>4. EmptyIsAttended'
    BY <1>7 DEF CheckEmpty, EmptyIsAttended, SessionsOf
  <2>5. LockProgress'
    BY <1>7 DEF CheckEmpty, LockProgress, Request
  <2>6. QED
    BY <2>1, <2>2, <2>3, <2>4, <2>5
<1>8. ASSUME NEW s \in Sessions, RemoveKey(s) PROVE IInv'
  <2>1. SetsBelong'
    BY <1>8 DEF RemoveKey, SetsBelong
  <2>2. MembersAtHome'
    BY <1>8 DEF RemoveKey, MembersAtHome
  <2>3. LeftForGood'
    BY <1>8 DEF RemoveKey, LeftForGood, MembersAtHome, SetsBelong
  <2>4. EmptyIsAttended'
    BY <1>8 DEF RemoveKey, EmptyIsAttended, SessionsOf
  <2>5. LockProgress'
    BY <1>8 DEF RemoveKey, LockProgress, Request
  <2>6. QED
    BY <2>1, <2>2, <2>3, <2>4, <2>5
<1>9. ASSUME NEW a \in Admins, NEW u \in Users, NEW locked \in BOOLEAN, ToggleLock(a, u, locked) PROVE IInv'
  <2>1. SetsBelong'
    BY <1>9 DEF ToggleLock, threadVars, SetsBelong
  <2>2. MembersAtHome'
    BY <1>9 DEF ToggleLock, threadVars, MembersAtHome
  <2>3. LeftForGood'
    BY <1>9 DEF ToggleLock, threadVars, LeftForGood
  <2>4. EmptyIsAttended'
    BY <1>9 DEF ToggleLock, threadVars, EmptyIsAttended, SessionsOf
  <2>5. LockProgress'
    BY <1>9 DEF ToggleLock, threadVars, LockProgress, Request
  <2>6. QED
    BY <2>1, <2>2, <2>3, <2>4, <2>5
<1>10. ASSUME NEW a \in Admins, DisconnectGet(a) PROVE IInv'
  <2>1. SetsBelong'
    BY <1>10 DEF DisconnectGet, threadVars, SetsBelong
  <2>2. MembersAtHome'
    BY <1>10 DEF DisconnectGet, threadVars, MembersAtHome
  <2>3. LeftForGood'
    BY <1>10 DEF DisconnectGet, threadVars, LeftForGood
  <2>4. EmptyIsAttended'
    BY <1>10 DEF DisconnectGet, threadVars, EmptyIsAttended, SessionsOf
  <2>5. LockProgress'
    BY <1>10 DEF DisconnectGet, threadVars, LockProgress, Request
  <2>6. QED
    BY <2>1, <2>2, <2>3, <2>4, <2>5
<1>11. ASSUME NEW a \in Admins, DisconnectCheck(a) PROVE IInv'
  <2>1. SetsBelong'
    BY <1>11 DEF DisconnectCheck, threadVars, SetsBelong
  <2>2. MembersAtHome'
    BY <1>11 DEF DisconnectCheck, threadVars, MembersAtHome
  <2>3. LeftForGood'
    BY <1>11 DEF DisconnectCheck, threadVars, LeftForGood
  <2>4. EmptyIsAttended'
    BY <1>11 DEF DisconnectCheck, threadVars, EmptyIsAttended, SessionsOf
  <2>5. LockProgress'
    BY <1>11 DEF DisconnectCheck, threadVars, LockProgress, Request
  <2>6. QED
    BY <2>1, <2>2, <2>3, <2>4, <2>5
<1>12. ASSUME NEW a \in Admins, DisconnectIterate(a) PROVE IInv'
  <2>1. SetsBelong'
    BY <1>12 DEF DisconnectIterate, threadVars, SetsBelong
  <2>2. MembersAtHome'
    BY <1>12 DEF DisconnectIterate, threadVars, MembersAtHome
  <2>3. LeftForGood'
    BY <1>12 DEF DisconnectIterate, threadVars, LeftForGood
  <2>4. EmptyIsAttended'
    BY <1>12 DEF DisconnectIterate, threadVars, EmptyIsAttended, SessionsOf
  <2>5. LockProgress'
    <3>1. /\ adm'[a].pc = "close" /\ adm'[a].seen \ adm'[a].todo = {}
          /\ \A s \in adm'[a].seen : pc[s] \notin Unadded
      BY <1>12 DEF DisconnectIterate, Request, MembersAtHome
    <3>2. \A b \in Admins \ {a} : adm'[b] = adm[b]
      BY <1>12 DEF DisconnectIterate
    <3>3. QED
      BY <1>12, <3>1, <3>2 DEF DisconnectIterate, threadVars, LockProgress
  <2>6. QED
    BY <2>1, <2>2, <2>3, <2>4, <2>5
<1>13. ASSUME NEW a \in Admins, NEW s \in Sessions, DisconnectClose(a, s) PROVE IInv'
  <2>1. SetsBelong'
    BY <1>13 DEF DisconnectClose, threadVars, SetsBelong
  <2>2. MembersAtHome'
    BY <1>13 DEF DisconnectClose, threadVars, MembersAtHome
  <2>3. LeftForGood'
    BY <1>13 DEF DisconnectClose, threadVars, LeftForGood
  <2>4. EmptyIsAttended'
    BY <1>13 DEF DisconnectClose, threadVars, EmptyIsAttended, SessionsOf
  <2>5. LockProgress'
    <3>1. /\ adm'[a].pc = "close" /\ adm'[a].seen = adm[a].seen
          /\ adm'[a].todo = adm[a].todo \ {s}
      BY <1>13 DEF DisconnectClose, Request
    <3>2. \A b \in Admins \ {a} : adm'[b] = adm[b]
      BY <1>13 DEF DisconnectClose
    <3>3. sock'[s] = "closed" /\ \A t \in Sessions \ {s} : sock'[t] = sock[t]
      BY <1>13 DEF DisconnectClose
    <3>4. pc' = pc
      BY <1>13 DEF DisconnectClose
    <3>5. QED
      BY <1>13, <3>1, <3>2, <3>3, <3>4 DEF DisconnectClose, LockProgress, Request
  <2>6. QED
    BY <2>1, <2>2, <2>3, <2>4, <2>5
<1>14. ASSUME NEW a \in Admins, DisconnectRemoveKey(a) PROVE IInv'
  <2>1. SetsBelong'
    BY <1>14 DEF DisconnectRemoveKey, threadVars, SetsBelong
  <2>2. MembersAtHome'
    BY <1>14 DEF DisconnectRemoveKey, threadVars, MembersAtHome
  <2>3. LeftForGood'
    BY <1>14 DEF DisconnectRemoveKey, threadVars, LeftForGood, MembersAtHome, SetsBelong
  <2>4. EmptyIsAttended'
    BY <1>14 DEF DisconnectRemoveKey, threadVars, EmptyIsAttended, SessionsOf
  <2>5. LockProgress'
    BY <1>14 DEF DisconnectRemoveKey, threadVars, LockProgress, Request
  <2>6. QED
    BY <2>1, <2>2, <2>3, <2>4, <2>5
<1>15. ASSUME NEW a \in Admins, LockCommit(a) PROVE IInv'
  <2>1. SetsBelong'
    BY <1>15 DEF LockCommit, threadVars, SetsBelong
  <2>2. MembersAtHome'
    BY <1>15 DEF LockCommit, threadVars, MembersAtHome
  <2>3. LeftForGood'
    BY <1>15 DEF LockCommit, threadVars, LeftForGood
  <2>4. EmptyIsAttended'
    BY <1>15 DEF LockCommit, threadVars, EmptyIsAttended, SessionsOf
  <2>5. LockProgress'
    BY <1>15, RestIsRequest DEF LockCommit, threadVars, LockProgress, Request
  <2>6. QED
    BY <2>1, <2>2, <2>3, <2>4, <2>5
<1>16. ASSUME NEW a \in Admins, LockAbort(a) PROVE IInv'
  <2>1. SetsBelong'
    BY <1>16 DEF LockAbort, threadVars, SetsBelong
  <2>2. MembersAtHome'
    BY <1>16 DEF LockAbort, threadVars, MembersAtHome
  <2>3. LeftForGood'
    BY <1>16 DEF LockAbort, threadVars, LeftForGood
  <2>4. EmptyIsAttended'
    BY <1>16 DEF LockAbort, threadVars, EmptyIsAttended, SessionsOf
  <2>5. LockProgress'
    BY <1>16, RestIsRequest DEF LockAbort, threadVars, LockProgress, Request
  <2>6. QED
    BY <2>1, <2>2, <2>3, <2>4, <2>5
<1>17. CASE UNCHANGED vars
  BY <1>17 DEF vars, SetsBelong, MembersAtHome, LeftForGood, EmptyIsAttended, LockProgress, SessionsOf
<1>18. QED
  BY <1>1, <1>2, <1>3, <1>4, <1>5, <1>6, <1>7, <1>8, <1>9, <1>10, <1>11, <1>12, <1>13, <1>14, <1>15, <1>16, <1>17
  DEF Next, SessionStep, LockStep, DisconnectStep

\* A dropped set object never comes back under a key, and whoever leaves an
\* empty one behind is still about to clear it.
THEOREM InductiveInvariant == Spec => []IInv
<1>1. Init => IInv
  <2>1. Init => TypeOK
    BY RestIsRequest DEF Init, TypeOK, SetRef, Unadded, Closing
  <2>2. Init => LockProgress
    BY RestIsRequest DEF Init, LockProgress
  <2>3. QED
    BY <2>1, <2>2 DEF Init, IInv, SetsBelong, MembersAtHome, LeftForGood,
                      EmptyIsAttended, Unadded, Closing
<1>2. QED
  BY <1>1, TypeCorrect, StepKeepsIInv, PTL DEF Spec

\* After its close callback has returned, no sender finds the session.
THEOREM GhostFree == Spec => []NoGhostSession
<1>1. IInv => NoGhostSession
  BY DEF IInv, TypeOK, SetRef, NoGhostSession, Listed, MembersAtHome, LeftForGood
<1>2. QED
  BY <1>1, InductiveInvariant, PTL

\* No key is left with an empty set once the user's threads have finished.
THEOREM LeakFree == Spec => []NoEmptyEntryLeak
<1>1. IInv => NoEmptyEntryLeak
  BY DEF IInv, NoEmptyEntryLeak, EmptyIsAttended, Quiet
<1>2. QED
  BY <1>1, InductiveInvariant, PTL

\* A lock request closes every session its loop set out to close.
THEOREM LockSweeps == Spec => []LockClosedWhatItSaw
<1>1. IInv => LockClosedWhatItSaw
  BY DEF IInv, LockProgress, LockClosedWhatItSaw
<1>2. QED
  BY <1>1, InductiveInvariant, PTL

\* A function changed at one point only.
LEMMA ChangedAtOnePoint ==
    ASSUME NEW f, NEW g, NEW s \in Sessions,
           f = [t \in Sessions |-> f[t]], g = [t \in Sessions |-> g[t]],
           \A t \in Sessions \ {s} : g[t] = f[t]
    PROVE  g = [f EXCEPT ![s] = g[s]]
  OBVIOUS

LEMMA PhaseIsFunction == Phase = [s \in Sessions |-> Phase[s]]
  BY DEF Phase

\* What the step of one session or one request does to the listing, seen
\* from another session that it leaves in the set.
LEMMA StepImplementsListing ==
    IInv /\ IInv' /\ [Next]_vars => [Listing!Next]_Phase
<1> SUFFICES ASSUME IInv, IInv', [Next]_vars
             PROVE  [Listing!Next]_Phase
  OBVIOUS
<1> USE DEF IInv, TypeOK, SetRef, Unadded, Closing, Phase, Listed
<1>1. ASSUME NEW s \in Sessions, Handshake(s) PROVE UNCHANGED Phase
  BY <1>1 DEF Handshake
<1>2. ASSUME NEW s \in Sessions, AddCompute(s) PROVE UNCHANGED Phase
  BY <1>2 DEF AddCompute, SetsBelong, MembersAtHome
<1>3. ASSUME NEW s \in Sessions, AddInsert(s)
      PROVE Listing!List(s) \/ Listing!Unlist(s)
  <2>1. \A t \in Sessions \ {s} : Phase'[t] = Phase[t]
    BY <1>3 DEF AddInsert, SetsBelong
  <2>2. Phase[s] = "before" /\ Phase'[s] \in {"listed", "after"}
    BY <1>3 DEF AddInsert
  <2>3. Phase' = [Phase EXCEPT ![s] = Phase'[s]]
    <3> HIDE DEF Phase
    <3>1. Phase = [t \in Sessions |-> Phase[t]]
      BY PhaseIsFunction
    <3>2. Phase' = [t \in Sessions |-> Phase'[t]]
      BY DEF Phase
    <3>3. QED
      BY <2>1, <3>1, <3>2, ChangedAtOnePoint
  <2>4. QED
    BY <2>2, <2>3 DEF Listing!List, Listing!Unlist
<1>4. ASSUME NEW s \in Sessions, SocketClosed(s) PROVE UNCHANGED Phase
  BY <1>4 DEF SocketClosed
<1>5. ASSUME NEW s \in Sessions, RemoveGet(s) PROVE UNCHANGED Phase
  BY <1>5 DEF RemoveGet
<1>6. ASSUME NEW s \in Sessions, RemoveFromSet(s)
      PROVE Listing!Unlist(s) \/ UNCHANGED Phase
  <2>1. \A t \in Sessions \ {s} : Phase'[t] = Phase[t]
    BY <1>6 DEF RemoveFromSet, SetsBelong
  <2>2. Phase'[s] = Phase[s] \/ (Phase[s] = "listed" /\ Phase'[s] = "after")
    BY <1>6 DEF RemoveFromSet, SetsBelong
  <2>3. Phase' = [Phase EXCEPT ![s] = Phase'[s]]
    <3> HIDE DEF Phase
    <3>1. Phase = [t \in Sessions |-> Phase[t]]
      BY PhaseIsFunction
    <3>2. Phase' = [t \in Sessions |-> Phase'[t]]
      BY DEF Phase
    <3>3. QED
      BY <2>1, <3>1, <3>2, ChangedAtOnePoint
  <2>4. CASE Phase'[s] = Phase[s]
    BY <2>1, <2>4
  <2>5. QED
    BY <2>2, <2>3, <2>4 DEF Listing!Unlist
<1>7. ASSUME NEW s \in Sessions, CheckEmpty(s) PROVE UNCHANGED Phase
  BY <1>7 DEF CheckEmpty
<1>8. ASSUME NEW s \in Sessions, RemoveKey(s)
      PROVE Listing!UnlistUser(OwnerOf[s])
  BY <1>8 DEF RemoveKey, Listing!UnlistUser
<1>9. ASSUME NEW a \in Admins, NEW u \in Users, u = adm[a].target,
             DisconnectRemoveKey(a)
      PROVE Listing!UnlistUser(u)
  BY <1>9 DEF DisconnectRemoveKey, threadVars, Listing!UnlistUser
<1>10. ASSUME NEW a \in Admins,
              \/ \E u \in Users, locked \in BOOLEAN : ToggleLock(a, u, locked)
              \/ DisconnectGet(a) \/ DisconnectCheck(a) \/ DisconnectIterate(a)
              \/ \E s \in Sessions : DisconnectClose(a, s)
              \/ LockCommit(a) \/ LockAbort(a)
       PROVE UNCHANGED Phase
  BY <1>10 DEF ToggleLock, DisconnectGet, DisconnectCheck, DisconnectIterate,
               DisconnectClose, LockCommit, LockAbort, threadVars
<1>11. CASE UNCHANGED vars
  BY <1>11 DEF vars
<1>12. ASSUME NEW s \in Sessions, SessionStep(s) \/ SocketClosed(s)
       PROVE  [Listing!Next]_Phase
  <2>1. OwnerOf[s] \in Users
    OBVIOUS
  <2>2. QED
    BY <1>1, <1>2, <1>3, <1>4, <1>5, <1>6, <1>7, <1>8, <1>12, <2>1
    DEF SessionStep, Listing!Next
<1>13. ASSUME NEW a \in Admins,
              LockStep(a) \/ \E u \in Users, locked \in BOOLEAN : ToggleLock(a, u, locked)
       PROVE  [Listing!Next]_Phase
  <2>1. PICK u \in Users : u = adm[a].target
    BY DEF Request
  <2>2. CASE DisconnectRemoveKey(a)
    BY <1>9, <2>1, <2>2 DEF Listing!Next
  <2>3. QED
    BY <1>10, <1>13, <2>2 DEF LockStep, DisconnectStep
<1>14. QED
  BY <1>11, <1>12, <1>13 DEF Next

\* The registry implements the abstract listing: every session is listed
\* for at most one period, and nothing ever lists it again.
THEOREM ImplementsListing == Spec => ListedOnlyOnce
<1>1. Init => Listing!Init
  BY DEF Init, Listing!Init, Phase, Unadded
<1>2. QED
  BY <1>1, InductiveInvariant, StepImplementsListing, PTL
  DEF Spec, ListedOnlyOnce, Listing!Spec
=============================================================================
