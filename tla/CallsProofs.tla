----------------------------- MODULE CallsProofs -----------------------------
(* What holds of the hooks of the calls for any number of users, calls,    *)
(* candidates, broken connections and clicks.                              *)
EXTENDS Calls, SequenceTheorems, FiniteSetTheorems, TLAPS

USE NobodyAssumption, BoundAssumption

-----------------------------------------------------------------------------
\* What is true of a hook, whatever its page shows.

\* A remote description may still be set, and the candidates wait for it.
Fresh(h) == h.job \in {"media", "offering", "asking", "answered"} \/ h.pc = "offered"

\* The function that waits fits the connection.
JobTrue(h) ==
    /\ h.job = "media" => h.pc \in {"none", "new"} /\ h.kind = "out"
    /\ h.job = "offering" => h.pc = "new" /\ h.kind = "out"
    /\ h.job = "asking" => h.pc = "new" /\ h.kind = "in"
    /\ h.job = "answered" => h.pc = "offered"
    /\ h.pc = "offered" => h.job \in {"none", "answered"} /\ h.kind = "out"

Counted(h) ==
    /\ Fresh(h) => ~HasRemote(h) /\ h.added = 0 /\ h.pending = h.heard
    /\ HasRemote(h) => /\ h.added + h.pending = h.heard
                       /\ h.pending > 0 => h.job \in {"drainOffer", "drainAnswer"}

HookTrue(h) ==
    /\ h \in Hook /\ JobTrue(h) /\ Counted(h)
    /\ h.answers + h.making <= MaxAnswers

\* A call that came in has been cleaned up, and only a prompt for the camera
\* that has been answered since may hold one.
LetGo(h) ==
    h.kind = "in" => /\ h.pc \in {"none", "new"} /\ h.job # "asking"
                     /\ h.camera => h.making > 0

\* What becomes of a hook keeps it true, its session and whether it let go.
Keeps(h, g) ==
    /\ HookTrue(g) /\ g.kind = h.kind /\ g.peer = h.peer
    /\ LetGo(h) => LetGo(g)

LEMMA HookFields ==
    ASSUME NEW h \in Hook
    PROVE  /\ h.kind \in {"out", "in"} /\ h.peer \in Users
           /\ h.isCallActive \in BOOLEAN /\ h.isIncomingCall \in BOOLEAN
           /\ h.pc \in {"none", "new", "offered", "asked", "stable"}
           /\ h.job \in {"none", "media", "offering", "broken", "asking", "answered",
                         "drainOffer", "drainAnswer"}
           /\ h.answers \in 0..MaxAnswers /\ h.making \in 0..MaxAnswers
           /\ h.camera \in BOOLEAN /\ h.leaked \in BOOLEAN
           /\ h.pending \in Nat /\ h.added \in Nat /\ h.heard \in Nat
BY DEF Hook

LEMMA DetachedTrue ==
    ASSUME NEW h, HookTrue(h)
    PROVE  HookTrue(Detached(h)) /\ (LetGo(h) => LetGo(Detached(h)))
<1> DEFINE g == Detached(h)
<1>1. h \in Hook /\ g = [h EXCEPT !.status = "idle", !.idleTimer = FALSE,
                                  !.isCallActive = FALSE, !.isIncomingCall = FALSE]
  BY DEF HookTrue, Detached
<1> HIDE DEF g
<1>2. g \in Hook
  BY ZenonT(60), <1>1 DEF Hook
<1>3. /\ g.kind = h.kind /\ g.pc = h.pc /\ g.job = h.job /\ g.camera = h.camera
      /\ g.answers = h.answers /\ g.making = h.making
      /\ g.added = h.added /\ g.pending = h.pending /\ g.heard = h.heard
  BY <1>1 DEF Hook
<1>4. QED
  BY <1>2, <1>3 DEF HookTrue, JobTrue, Counted, Fresh, HasRemote, LetGo, g

LEMMA NewHookTrue ==
    ASSUME NEW kind \in {"out", "in"}, NEW peer \in Users
    PROVE  HookTrue(NewHook(kind, peer)) /\ NewHook(kind, peer).kind = kind
BY DEF HookTrue, Hook, NewHook, JobTrue, Counted, Fresh, HasRemote

LEMMA StopKeeps ==
    ASSUME NEW h, HookTrue(h)
    PROVE  Keeps(h, StopMediaTracks(h))
BY ZenonT(60) DEF Keeps, HookTrue, Hook, StopMediaTracks, JobTrue, Counted, Fresh, HasRemote, LetGo

\* What cleanupCall leaves, field by field.
LEMMA CleanupFields ==
    ASSUME NEW h \in Hook
    PROVE  /\ CleanupCall(h) \in Hook
           /\ CleanupCall(h).kind = h.kind /\ CleanupCall(h).peer = h.peer
           /\ CleanupCall(h).pc = "none" /\ ~CleanupCall(h).camera
           /\ CleanupCall(h).answers = h.answers /\ CleanupCall(h).making = h.making
           /\ CleanupCall(h).pending = 0 /\ CleanupCall(h).added = 0
           /\ CleanupCall(h).heard = 0
           /\ CleanupCall(h).job \notin {"asking", "answered", "offering"}
           /\ CleanupCall(h).job \in {"none", "broken"} \/ CleanupCall(h).job = h.job
<1> DEFINE closed == [StopMediaTracks(h) EXCEPT
                        !.pc = "none", !.pending = 0, !.added = 0, !.heard = 0]
           ended == [closed EXCEPT
                        !.isCallActive = FALSE, !.isIncomingCall = FALSE,
                        !.status = "ended", !.idleTimer = TRUE]
           job == CASE h.job \in {"asking", "answered"} -> "none"
                    [] h.job = "offering" -> "broken"
                    [] OTHER -> h.job
<1>1. /\ closed \in Hook
      /\ closed.kind = h.kind /\ closed.peer = h.peer /\ closed.job = h.job
      /\ closed.answers = h.answers /\ closed.making = h.making
      /\ closed.pc = "none" /\ ~closed.camera
      /\ closed.pending = 0 /\ closed.added = 0 /\ closed.heard = 0
  BY ZenonT(60) DEF Hook, StopMediaTracks
<1>2. CleanupCall(h) = [ended EXCEPT !.job = job]
  <2>1. ended.job = h.job
    BY DEF Hook, StopMediaTracks
  <2>2. QED
    BY <2>1, Zenon DEF CleanupCall
<1>3. /\ job \in {"none", "broken"} \/ job = h.job
      /\ job \notin {"asking", "answered", "offering"}
  OBVIOUS
<1> HIDE DEF closed, ended, job
<1>4. job \in {"none", "media", "offering", "broken", "asking", "answered",
               "drainOffer", "drainAnswer"}
  BY <1>3 DEF Hook
<1>5. /\ ended \in Hook
      /\ ended.kind = h.kind /\ ended.peer = h.peer
      /\ ended.answers = h.answers /\ ended.making = h.making
      /\ ended.pc = "none" /\ ~ended.camera
      /\ ended.pending = 0 /\ ended.added = 0 /\ ended.heard = 0
  <2> DEFINE silent == [closed EXCEPT !.isCallActive = FALSE, !.isIncomingCall = FALSE]
  <2>1. /\ silent \in Hook
        /\ silent.kind = h.kind /\ silent.peer = h.peer
        /\ silent.answers = h.answers /\ silent.making = h.making
        /\ silent.pc = "none" /\ ~silent.camera
        /\ silent.pending = 0 /\ silent.added = 0 /\ silent.heard = 0
    BY <1>1 DEF Hook
  <2>2. ended = [silent EXCEPT !.status = "ended", !.idleTimer = TRUE]
    BY DEF ended
  <2> HIDE DEF silent
  <2>3. QED
    BY <2>1, <2>2 DEF Hook
<1>6. /\ CleanupCall(h) \in Hook
      /\ CleanupCall(h).kind = h.kind /\ CleanupCall(h).peer = h.peer
      /\ CleanupCall(h).pc = "none" /\ ~CleanupCall(h).camera
      /\ CleanupCall(h).answers = h.answers /\ CleanupCall(h).making = h.making
      /\ CleanupCall(h).pending = 0 /\ CleanupCall(h).added = 0
      /\ CleanupCall(h).heard = 0 /\ CleanupCall(h).job = job
  BY <1>2, <1>4, <1>5 DEF Hook
<1>7. QED
  BY <1>3, <1>6

LEMMA CleanupTrue ==
    ASSUME NEW h, HookTrue(h)
    PROVE  /\ Keeps(h, CleanupCall(h)) /\ LetGo(CleanupCall(h))
           /\ CleanupCall(h).pc = "none" /\ ~CleanupCall(h).camera
<1> DEFINE g == CleanupCall(h)
<1>1. h \in Hook /\ JobTrue(h) /\ h.answers + h.making <= MaxAnswers
  BY DEF HookTrue
<1>2. /\ g \in Hook
      /\ g.kind = h.kind /\ g.peer = h.peer /\ g.pc = "none" /\ ~g.camera
      /\ g.answers = h.answers /\ g.making = h.making
      /\ g.pending = 0 /\ g.added = 0 /\ g.heard = 0
      /\ g.job \notin {"asking", "answered", "offering"}
      /\ g.job \in {"none", "broken"} \/ g.job = h.job
  BY <1>1, CleanupFields
<1> HIDE DEF g
<1>3. JobTrue(g)
  BY <1>1, <1>2 DEF JobTrue
<1>4. Counted(g)
  BY <1>2 DEF Counted, Fresh, HasRemote
<1>5. LetGo(g)
  BY <1>2 DEF LetGo
<1>6. Keeps(h, g)
  BY <1>1, <1>2, <1>3, <1>4, <1>5 DEF Keeps, HookTrue
<1>7. QED
  BY <1>2, <1>5, <1>6 DEF g

LEMMA CreateTrue ==
    ASSUME NEW h, HookTrue(h)
    PROVE  /\ Keeps(h, CreatePeerConnection(h))
           /\ CreatePeerConnection(h).job = h.job
           /\ CreatePeerConnection(h).pc = IF h.pc = "none" THEN "new" ELSE h.pc
BY DEF Keeps, HookTrue, Hook, CreatePeerConnection, JobTrue, Counted, Fresh, HasRemote, LetGo

LEMMA KeepsTwice ==
    ASSUME NEW h, NEW g, NEW k, Keeps(h, g), Keeps(g, k)
    PROVE  Keeps(h, k)
BY DEF Keeps

LEMMA SignalTrue ==
    ASSUME NEW h, HookTrue(h), NEW m \in Signal
    PROVE  Keeps(h, HandleWebRTCSignal(h, m))
<1> DEFINE o == CreatePeerConnection(h)
           g == HandleWebRTCSignal(h, m)
<1>1. Keeps(h, o) /\ HookTrue(o) /\ o.pc # "none"
  BY CreateTrue DEF Keeps
<1> HIDE DEF o
<1>2. SUFFICES Keeps(o, g)
  BY <1>1, KeepsTwice
<1>3. CASE m = "offer"
  BY <1>1, <1>3 DEF HandleWebRTCSignal, Keeps, o
<1>4. CASE m = "answer"
  <2>1. CASE o.pc = "offered" /\ o.job = "none"
    <3>1. g = [o EXCEPT !.job = "answered"]
      BY <1>4, <2>1 DEF HandleWebRTCSignal, o
    <3> HIDE DEF g
    <3>2. QED
      BY <1>1, <2>1, <3>1
      DEF Keeps, HookTrue, Hook, JobTrue, Counted, Fresh, HasRemote, LetGo
  <2>2. CASE ~(o.pc = "offered" /\ o.job = "none")
    BY <1>1, <1>4, <2>2 DEF HandleWebRTCSignal, Keeps, o
  <2>3. QED
    BY <2>1, <2>2
<1>5. CASE m = "candidate"
  <2>1. CASE HasRemote(o)
    <3>1. g = [o EXCEPT !.heard = @ + 1, !.added = @ + 1]
      BY <1>5, <2>1 DEF HandleWebRTCSignal, o
    <3> HIDE DEF g
    <3>2. o \in Hook /\ o.heard \in Nat /\ o.pending \in Nat /\ o.added \in Nat
      BY <1>1, HookFields DEF HookTrue
    <3>3. g \in Hook
      <4>1. PICK a \in Nat, b \in Nat : a = o.heard + 1 /\ b = o.added + 1
        BY <3>2
      <4>2. g = [o EXCEPT !.heard = a, !.added = b]
        BY <3>1, <4>1
      <4>3. QED
        BY <3>2, <4>2 DEF Hook
    <3>4. /\ g.kind = o.kind /\ g.peer = o.peer /\ g.pc = o.pc /\ g.job = o.job
          /\ g.camera = o.camera /\ g.answers = o.answers /\ g.making = o.making
          /\ g.pending = o.pending /\ g.added = o.added + 1 /\ g.heard = o.heard + 1
      BY <3>1, <3>2 DEF Hook
    <3>5. JobTrue(g) /\ (LetGo(o) => LetGo(g)) /\ g.answers + g.making <= MaxAnswers
      BY <1>1, <3>4 DEF HookTrue, JobTrue, LetGo
    <3>6. Counted(g)
      BY SMTT(40), <1>1, <2>1, <3>2, <3>4 DEF HookTrue, Counted, Fresh, HasRemote
    <3>7. QED
      BY <3>3, <3>4, <3>5, <3>6 DEF Keeps, HookTrue
  <2>2. CASE ~HasRemote(o)
    <3>1. g = [o EXCEPT !.heard = @ + 1, !.pending = @ + 1]
      BY <1>5, <2>2 DEF HandleWebRTCSignal, o
    <3> HIDE DEF g
    <3>2. o \in Hook /\ o.heard \in Nat /\ o.pending \in Nat /\ o.added \in Nat
      BY <1>1, HookFields DEF HookTrue
    <3>3. g \in Hook
      <4>1. PICK a \in Nat, b \in Nat : a = o.heard + 1 /\ b = o.pending + 1
        BY <3>2
      <4>2. g = [o EXCEPT !.heard = a, !.pending = b]
        BY <3>1, <4>1
      <4>3. QED
        BY <3>2, <4>2 DEF Hook
    <3>4. /\ g.kind = o.kind /\ g.peer = o.peer /\ g.pc = o.pc /\ g.job = o.job
          /\ g.camera = o.camera /\ g.answers = o.answers /\ g.making = o.making
          /\ g.added = o.added /\ g.pending = o.pending + 1 /\ g.heard = o.heard + 1
      BY <3>1, <3>2 DEF Hook
    <3>5. JobTrue(g) /\ (LetGo(o) => LetGo(g)) /\ g.answers + g.making <= MaxAnswers
      BY <1>1, <3>4 DEF HookTrue, JobTrue, LetGo
    <3>6. Counted(g)
      BY <1>1, <2>2, <3>2, <3>4 DEF HookTrue, Counted, Fresh, HasRemote
    <3>7. QED
      BY <3>3, <3>4, <3>5, <3>6 DEF Keeps, HookTrue
  <2>3. QED
    BY <2>1, <2>2
<1>6. CASE m \in {"hangUp", "reject"}
  <2>1. g = CleanupCall(o)
    BY <1>6 DEF HandleWebRTCSignal, o
  <2>2. QED
    BY <1>1, <2>1, CleanupTrue
<1>7. QED
  BY <1>3, <1>4, <1>5, <1>6 DEF Signal

\* The functions that go on after an await.
LEMMA MediaKeeps ==
    ASSUME NEW h, HookTrue(h), h.job = "media"
    PROVE  Keeps(h, [CreatePeerConnection(GotMedia(h)) EXCEPT !.job = "offering"])
<1> DEFINE k == GotMedia(h)
           o == CreatePeerConnection(k)
           g == [o EXCEPT !.job = "offering"]
<1>1. Keeps(h, k) /\ HookTrue(k) /\ k.job = "media"
  BY ZenonT(60) DEF Keeps, GotMedia, HookTrue, Hook, JobTrue, Counted, Fresh, HasRemote, LetGo
<1> HIDE DEF k
<1>2. Keeps(k, o) /\ HookTrue(o) /\ o.job = "media" /\ o.pc = "new"
  BY <1>1, CreateTrue DEF Keeps, HookTrue, JobTrue
<1> HIDE DEF o
<1>3. Keeps(o, g)
  BY <1>2 DEF Keeps, HookTrue, Hook, JobTrue, Counted, Fresh, HasRemote, LetGo
<1>4. QED
  BY <1>1, <1>2, <1>3, KeepsTwice DEF o, k

LEMMA FailureKeeps ==
    ASSUME NEW h, HookTrue(h)
    PROVE  Keeps(h, [CleanupCall(h) EXCEPT !.job = "none"])
<1> DEFINE k == CleanupCall(h)
           g == [k EXCEPT !.job = "none"]
<1>1. Keeps(h, k) /\ HookTrue(k) /\ k.pc = "none" /\ LetGo(k)
  BY CleanupTrue DEF Keeps
<1> HIDE DEF k
<1>2. Keeps(k, g)
  BY <1>1 DEF Keeps, HookTrue, Hook, JobTrue, Counted, Fresh, HasRemote, LetGo
<1>3. QED
  BY <1>1, <1>2, KeepsTwice DEF k

LEMMA OfferKeeps ==
    ASSUME NEW h, HookTrue(h), h.job = "offering"
    PROVE  Keeps(h, [h EXCEPT !.job = "none", !.pc = "offered",
                              !.isCallActive = TRUE, !.status = "calling"])
<1> DEFINE g == [h EXCEPT !.job = "none", !.pc = "offered",
                          !.isCallActive = TRUE, !.status = "calling"]
<1>1. h \in Hook
  BY DEF HookTrue
<1>2. g \in Hook
  BY <1>1 DEF Hook
<1>3. /\ g.kind = h.kind /\ g.peer = h.peer /\ g.pc = "offered" /\ g.job = "none"
      /\ g.camera = h.camera
      /\ g.answers = h.answers /\ g.making = h.making
      /\ g.added = h.added /\ g.pending = h.pending /\ g.heard = h.heard
  BY <1>1 DEF Hook
<1> HIDE DEF g
<1>4. QED
  BY <1>2, <1>3 DEF Keeps, HookTrue, JobTrue, Counted, Fresh, HasRemote, LetGo, g

LEMMA RemoteKeeps ==
    ASSUME NEW h, HookTrue(h)
    PROVE  /\ h.job = "asking" => Keeps(h, [h EXCEPT !.pc = "asked", !.job = "drainOffer"])
           /\ h.job = "answered" => Keeps(h, [h EXCEPT !.pc = "stable", !.job = "drainAnswer"])
<1>1. ASSUME NEW pc \in {"asked", "stable"}, NEW job \in {"drainOffer", "drainAnswer"},
             h.job \in {"asking", "answered"}
      PROVE  Keeps(h, [h EXCEPT !.pc = pc, !.job = job])
  <2> DEFINE g == [h EXCEPT !.pc = pc, !.job = job]
  <2>1. h \in Hook /\ h.pending \in Nat /\ h.heard \in Nat
    BY HookFields DEF HookTrue
  <2>2. g \in Hook
    BY ZenonT(60), <2>1 DEF Hook
  <2>3. /\ g.kind = h.kind /\ g.peer = h.peer /\ g.pc = pc /\ g.job = job
        /\ g.camera = h.camera
        /\ g.answers = h.answers /\ g.making = h.making
        /\ g.added = h.added /\ g.pending = h.pending /\ g.heard = h.heard
    BY <2>1 DEF Hook
  <2> HIDE DEF g
  <2>4. Counted(h) /\ Fresh(h) /\ JobTrue(h)
    BY <1>1 DEF HookTrue, Fresh
  <2>5. g.added + g.pending = g.heard
    BY <2>1, <2>3, <2>4 DEF Counted
  <2>6. Counted(g) /\ JobTrue(g)
    BY <2>3, <2>5 DEF Counted, JobTrue, Fresh, HasRemote
  <2>7. ~LetGo(h) \/ h.kind = "out"
    BY <1>1, <2>1, <2>4, HookFields DEF LetGo, JobTrue
  <2>8. LetGo(h) => LetGo(g)
    BY <2>3, <2>7 DEF LetGo
  <2>9. QED
    BY <2>2, <2>3, <2>6, <2>8 DEF Keeps, HookTrue, g
<1>2. QED
  BY <1>1

LEMMA DrainKeeps ==
    ASSUME NEW h, HookTrue(h), h.job \in {"drainOffer", "drainAnswer"}
    PROVE  /\ Keeps(h, [Drain(h) EXCEPT !.isIncomingCall = TRUE, !.isCallActive = TRUE,
                                        !.status = "ringing"])
           /\ Keeps(h, [Drain(h) EXCEPT !.status = "connected"])
<1> DEFINE k == Drain(h)
<1>1. /\ h \in Hook /\ h.pending \in Nat /\ h.heard \in Nat /\ h.added \in Nat
  BY HookFields DEF HookTrue
<1>2. PICK a \in Nat : a = IF HasRemote(h) THEN h.added + h.pending ELSE h.added
  BY <1>1
<1>3. k = [h EXCEPT !.added = a, !.pending = 0, !.job = "none"]
  BY <1>1, <1>2 DEF Drain
<1> HIDE DEF k
<1>4. k \in Hook
  BY ZenonT(60), <1>1, <1>3 DEF Hook
<1>5. /\ k.kind = h.kind /\ k.peer = h.peer /\ k.pc = h.pc /\ k.job = "none"
      /\ k.camera = h.camera /\ k.answers = h.answers /\ k.making = h.making
      /\ k.added = a /\ k.pending = 0 /\ k.heard = h.heard
  BY <1>1, <1>3 DEF Hook
<1>6. JobTrue(h) /\ Counted(h) /\ h.pc # "offered"
  BY DEF HookTrue, JobTrue
<1>7. HasRemote(h) => a + 0 = h.heard
  BY <1>1, <1>2, <1>6 DEF Counted
<1>8. HookTrue(k) /\ Keeps(h, k) /\ ~Fresh(k)
  <2>1. JobTrue(k) /\ Counted(k) /\ ~Fresh(k)
    BY <1>5, <1>6, <1>7 DEF JobTrue, Counted, Fresh, HasRemote
  <2>2. k.answers + k.making <= MaxAnswers
    BY <1>5 DEF HookTrue
  <2>3. LetGo(h) => LetGo(k)
    BY <1>5 DEF LetGo
  <2>4. QED
    BY <1>4, <1>5, <2>1, <2>2, <2>3 DEF HookTrue, Keeps
<1>9. ASSUME NEW b \in BOOLEAN, NEW c \in BOOLEAN, NEW st \in {"ringing", "connected"},
             NEW g, g = [k EXCEPT !.isIncomingCall = b, !.isCallActive = c, !.status = st]
      PROVE  Keeps(k, g)
  <2>1. g \in Hook
    BY ZenonT(60), <1>4, <1>9 DEF Hook
  <2>2. /\ g.kind = k.kind /\ g.peer = k.peer /\ g.pc = k.pc /\ g.job = k.job
        /\ g.camera = k.camera
        /\ g.answers = k.answers /\ g.making = k.making
        /\ g.added = k.added /\ g.pending = k.pending /\ g.heard = k.heard
    BY <1>4, <1>9 DEF Hook
  <2>3. QED
    BY <1>8, <2>1, <2>2 DEF Keeps, HookTrue, JobTrue, Counted, Fresh, HasRemote, LetGo
<1>10. Keeps(k, [k EXCEPT !.isIncomingCall = TRUE, !.isCallActive = TRUE, !.status = "ringing"])
  BY <1>9
<1>11. Keeps(k, [k EXCEPT !.status = "connected"])
  <2>1. k.isIncomingCall \in BOOLEAN /\ k.isCallActive \in BOOLEAN
    BY <1>4, HookFields
  <2>2. [k EXCEPT !.status = "connected"]
          = [k EXCEPT !.isIncomingCall = k.isIncomingCall, !.isCallActive = k.isCallActive,
                      !.status = "connected"]
    BY <1>4 DEF Hook
  <2>3. QED
    BY <1>9, <2>1, <2>2
<1>12. QED
  BY <1>8, <1>10, <1>11, KeepsTwice DEF k

LEMMA ConnectedKeeps ==
    ASSUME NEW h, HookTrue(h), h.pc = "stable"
    PROVE  Keeps(h, [h EXCEPT !.status = "connected"])
<1> DEFINE g == [h EXCEPT !.status = "connected"]
<1>1. h \in Hook
  BY DEF HookTrue
<1>2. g \in Hook
  BY <1>1 DEF Hook
<1>3. /\ g.kind = h.kind /\ g.peer = h.peer /\ g.pc = h.pc /\ g.job = h.job
      /\ g.camera = h.camera /\ g.answers = h.answers /\ g.making = h.making
      /\ g.added = h.added /\ g.pending = h.pending /\ g.heard = h.heard
  BY <1>1 DEF Hook
<1> HIDE DEF g
<1>4. QED
  BY <1>2, <1>3 DEF Keeps, HookTrue, JobTrue, Counted, Fresh, HasRemote, LetGo, g

\* A prompt or an answer fewer.
LEMMA FewerKeeps ==
    ASSUME NEW h, HookTrue(h), NEW n \in 0..MaxAnswers, NEW g,
           \/ n = h.answers - 1 /\ g = [h EXCEPT !.answers = n]
           \/ n = h.making - 1 /\ g = [h EXCEPT !.making = n]
    PROVE  /\ HookTrue(g) /\ g.kind = h.kind /\ g.peer = h.peer
           /\ g.pc = h.pc /\ g.job = h.job
           /\ g.answers + g.making + 1 <= MaxAnswers
<1>1. h \in Hook /\ h.answers \in Nat /\ h.making \in Nat
  BY HookFields DEF HookTrue
<1>2. g \in Hook
  BY <1>1 DEF Hook
<1>3. /\ g.kind = h.kind /\ g.peer = h.peer /\ g.pc = h.pc /\ g.job = h.job
      /\ g.camera = h.camera
      /\ g.added = h.added /\ g.pending = h.pending /\ g.heard = h.heard
      /\ \/ g.answers = h.answers - 1 /\ g.making = h.making
         \/ g.making = h.making - 1 /\ g.answers = h.answers
  BY <1>1 DEF Hook
<1>4. g.answers + g.making + 1 <= MaxAnswers /\ g.answers + g.making <= MaxAnswers
  BY <1>1, <1>3 DEF HookTrue
<1>5. JobTrue(g) /\ Counted(g)
  BY <1>3 DEF HookTrue, JobTrue, Counted, Fresh, HasRemote
<1>6. QED
  BY <1>2, <1>3, <1>4, <1>5 DEF HookTrue

LEMMA PromptKeeps ==
    ASSUME NEW h, HookTrue(h), h.answers > 0,
           NEW k, k = [h EXCEPT !.answers = @ - 1]
    PROVE  /\ Keeps(h, CleanupCall(k)) /\ Keeps(h, CleanupCall(GotMedia(k)))
           /\ h.pc # "none" => Keeps(h, [GotMedia(k) EXCEPT !.making = @ + 1])
           /\ k.pc = h.pc
<1>1. h \in Hook /\ h.answers \in 0..MaxAnswers
  BY HookFields DEF HookTrue
<1>2. /\ HookTrue(k) /\ k.kind = h.kind /\ k.peer = h.peer /\ k.pc = h.pc /\ k.job = h.job
      /\ k.answers + k.making + 1 <= MaxAnswers
  <2>1. PICK n \in 0..MaxAnswers : n = h.answers - 1
    BY <1>1
  <2>2. k = [h EXCEPT !.answers = n]
    BY <1>1, <2>1
  <2>3. n = h.answers - 1 /\ k = [h EXCEPT !.answers = n]
    BY <2>1, <2>2
  <2>4. HookTrue(k) /\ k.kind = h.kind /\ k.peer = h.peer /\ k.pc = h.pc /\ k.job = h.job
    BY <2>3, FewerKeeps
  <2>5. k.answers + k.making + 1 <= MaxAnswers
    BY <2>3, FewerKeeps
  <2>6. QED
    BY <2>4, <2>5
<1> DEFINE c == GotMedia(k)
<1>3. c \in Hook /\ k \in Hook /\ k.answers \in Nat /\ k.making \in Nat
  <2>1. k \in Hook /\ k.answers \in Nat /\ k.making \in Nat
    BY <1>2, HookFields DEF HookTrue
  <2>2. (k.leaked \/ k.camera) \in BOOLEAN
    BY <2>1, HookFields
  <2>3. QED
    BY ZenonT(60), <2>1, <2>2 DEF Hook, GotMedia
<1>4. /\ c.kind = k.kind /\ c.peer = k.peer /\ c.pc = k.pc /\ c.job = k.job
      /\ c.answers = k.answers /\ c.making = k.making /\ c.camera
      /\ c.added = k.added /\ c.pending = k.pending /\ c.heard = k.heard
  BY <1>3 DEF Hook, GotMedia
<1> HIDE DEF c
<1>5. HookTrue(c)
  BY <1>2, <1>3, <1>4 DEF HookTrue, JobTrue, Counted, Fresh, HasRemote
<1>6. ASSUME NEW x, HookTrue(x), x.kind = h.kind, x.peer = h.peer
      PROVE  Keeps(h, CleanupCall(x))
  BY <1>6, CleanupTrue DEF Keeps
<1>7. Keeps(h, CleanupCall(k)) /\ Keeps(h, CleanupCall(c))
  BY ZenonT(60), <1>2, <1>4, <1>5, <1>6
<1>8. ASSUME h.pc # "none" PROVE Keeps(h, [c EXCEPT !.making = @ + 1])
  <2>1. PICK n \in 0..MaxAnswers : n = c.making + 1
    BY <1>2, <1>3, <1>4
  <2> DEFINE g == [c EXCEPT !.making = n]
  <2>2. g = [c EXCEPT !.making = @ + 1]
    BY <2>1, <1>3
  <2>3. g \in Hook
    BY <1>3 DEF Hook
  <2>4. /\ g.kind = c.kind /\ g.peer = c.peer /\ g.pc = c.pc /\ g.job = c.job
        /\ g.answers = c.answers /\ g.making = n
        /\ g.added = c.added /\ g.pending = c.pending /\ g.heard = c.heard
    BY <1>3 DEF Hook
  <2> HIDE DEF g
  <2>5. g.answers + g.making <= MaxAnswers /\ g.making > 0
    BY <1>2, <1>3, <1>4, <2>1, <2>4
  <2>6. JobTrue(g) /\ Counted(g)
    BY <1>5, <2>4 DEF HookTrue, JobTrue, Counted, Fresh, HasRemote
  <2>7. LetGo(h) => LetGo(g)
    BY <1>2, <1>4, <2>4, <2>5 DEF LetGo
  <2>8. QED
    BY <1>2, <1>4, <2>2, <2>3, <2>4, <2>5, <2>6, <2>7 DEF Keeps, HookTrue
<1>9. QED
  BY <1>2, <1>7, <1>8 DEF c

LEMMA StableIsHook ==
    ASSUME NEW h \in Hook
    PROVE  [h EXCEPT !.pc = "stable", !.isIncomingCall = FALSE, !.status = "connected"] \in Hook
BY DEF Hook

LEMMA AnswerKeeps ==
    ASSUME NEW h, HookTrue(h), h.making > 0,
           NEW k, k = [h EXCEPT !.making = @ - 1]
    PROVE  /\ Keeps(h, CleanupCall(k)) /\ k.peer = h.peer
           /\ k.pc = "asked" => Keeps(h, [k EXCEPT !.pc = "stable", !.isIncomingCall = FALSE,
                                                   !.status = "connected"])
<1>1. h \in Hook /\ h.making \in 0..MaxAnswers
  BY HookFields DEF HookTrue
<1>2. HookTrue(k) /\ k.kind = h.kind /\ k.peer = h.peer /\ k.pc = h.pc /\ k.job = h.job
  <2>1. PICK n \in 0..MaxAnswers : n = h.making - 1
    BY <1>1
  <2>2. k = [h EXCEPT !.making = n]
    BY <1>1, <2>1
  <2>3. QED
    BY <2>1, <2>2, FewerKeeps
<1>3. Keeps(h, CleanupCall(k))
  BY <1>2, CleanupTrue DEF Keeps
<1>4. ASSUME k.pc = "asked"
      PROVE  Keeps(h, [k EXCEPT !.pc = "stable", !.isIncomingCall = FALSE,
                                !.status = "connected"])
  <2> DEFINE g == [k EXCEPT !.pc = "stable", !.isIncomingCall = FALSE, !.status = "connected"]
  <2>0. k \in Hook
    BY <1>2 DEF HookTrue
  <2>1. g \in Hook
    BY <2>0, StableIsHook
  <2>2. /\ g.kind = k.kind /\ g.peer = k.peer /\ g.pc = "stable" /\ g.job = k.job
        /\ g.answers = k.answers /\ g.making = k.making /\ g.camera = k.camera
        /\ g.added = k.added /\ g.pending = k.pending /\ g.heard = k.heard
    BY <2>0 DEF Hook
  <2> HIDE DEF g
  <2>3. JobTrue(k) /\ Counted(k) /\ HasRemote(k) /\ ~Fresh(k)
    BY <1>2, <1>4 DEF HookTrue, Counted, HasRemote
  <2>4. JobTrue(g)
    BY <2>2, <2>3 DEF JobTrue, Fresh
  <2>5. Counted(g)
    BY <2>2, <2>3 DEF Counted, Fresh, HasRemote
  <2>6. LetGo(h) => LetGo(g)
    BY <1>2, <1>4, <2>2 DEF LetGo
  <2>7. QED
    BY <1>2, <2>1, <2>2, <2>4, <2>5, <2>6 DEF Keeps, HookTrue, g
<1>5. QED
  BY <1>2, <1>3, <1>4

-----------------------------------------------------------------------------
\* What is true of a page: its hooks s, whether the last of them is mounted,
\* and the two calls of the store.

WantKind(o, d) == IF o # None THEN "out" ELSE IF d # None THEN "in" ELSE "none"

HooksTrue(s) == s \in Seq(Hook) /\ \A i \in 1..Len(s) : HookTrue(s[i])

\* The hook of a call that came in has let go once the page shows it no more
\* or is about to take it away, and a call that came in is not taken away for
\* one that goes out.
PageTrue(s, m, o, d) ==
    /\ HooksTrue(s)
    /\ m => s # <<>>
    /\ \A i \in 1..Len(s) : ~(m /\ i = Len(s)) \/ WantKind(o, d) # "in" => LetGo(s[i])
    /\ o # None => d = None
    /\ m /\ s[Len(s)].kind = "in" => o = None

LEMMA FunIsSeq ==
    ASSUME NEW S, NEW n \in Nat, NEW f \in [1..n -> S]
    PROVE  f \in Seq(S) /\ Len(f) = n
<1>1. Seq(S) = UNION {[1..k -> S] : k \in Nat}
  BY SeqDef
<1>2. f \in Seq(S)
  BY <1>1, Zenon
<1>3. DOMAIN f = 1..n /\ DOMAIN f = 1..Len(f) /\ Len(f) \in Nat
  BY <1>2, LenProperties
<1>4. PICK b \in Nat : b = Len(f)
  BY <1>3
<1>5. 1..n = 1..b
  BY <1>3, <1>4
<1>6. (n \in 1..n => n \in 1..b) /\ (b \in 1..b => b \in 1..n)
  BY <1>5
<1>7. n = b
  BY <1>6
<1>8. QED
  BY <1>2, <1>4, <1>7

\* The hooks that remain are those that were there.
LEMMA RemainingReads ==
    ASSUME NEW s, HooksTrue(s)
    PROVE  /\ HooksTrue(Remaining(s))
           /\ \A k \in 1..Len(Remaining(s)) :
                 \E i \in 1..Len(s) : Remaining(s)[k] = Detached(s[i])
<1> DEFINE S == {i \in DOMAIN s : ~Inert(Detached(s[i]))}
           p == SetToSeq(S)
           n == Cardinality(S)
<1>1. Len(s) \in Nat /\ DOMAIN s = 1..Len(s)
  BY LenProperties DEF HooksTrue
<1>2. IsFiniteSet(1..Len(s))
  BY <1>1, FS_Interval
<1>3. S \subseteq 1..Len(s)
  BY <1>1
<1>4. IsFiniteSet(S)
  BY <1>2, <1>3, FS_Subset
<1> HIDE DEF S
<1>5. n \in Nat /\ ExistsBijection(1..n, S)
  BY <1>4, FS_CardinalityType
<1>6. \E f \in [1..n -> S] : IsInjective(f)
  BY <1>5 DEF ExistsBijection, Bijection, Injection
<1>7. p \in [1..n -> S]
  BY <1>6 DEF SetToSeq
<1> HIDE DEF n, p
<1> DEFINE r == [k \in DOMAIN p |-> Detached(s[p[k]])]
<1>8. r = Remaining(s)
  BY DEF Remaining, p, S
<1>9. ASSUME NEW k \in 1..n
      PROVE  p[k] \in 1..Len(s) /\ r[k] = Detached(s[p[k]]) /\ HookTrue(r[k])
  <2>1. p[k] \in 1..Len(s) /\ r[k] = Detached(s[p[k]])
    BY <1>3, <1>7
  <2>2. HookTrue(s[p[k]])
    BY <2>1 DEF HooksTrue
  <2>3. QED
    BY <2>1, <2>2, DetachedTrue
<1>10. r \in [1..n -> Hook]
  <2>1. DOMAIN r = 1..n
    BY <1>7
  <2>2. \A k \in 1..n : r[k] \in Hook
    BY <1>9 DEF HookTrue
  <2>3. r = [k \in 1..n |-> r[k]]
    BY <2>1
  <2> HIDE DEF r
  <2>4. QED
    BY <2>2, <2>3
<1> HIDE DEF r
<1>11. r \in Seq(Hook) /\ Len(r) = n
  BY <1>5, <1>10, FunIsSeq
<1>12. QED
  BY <1>8, <1>9, <1>11 DEF HooksTrue

\* RemoveAt leaves the other elements, in order.
LEMMA RemoveReads ==
    ASSUME NEW s \in Seq(Hook), NEW i \in 1..Len(s)
    PROVE  /\ RemoveAt(s, i) \in Seq(Hook) /\ Len(RemoveAt(s, i)) = Len(s) - 1
           /\ \A j \in 1..(Len(s) - 1) :
                 RemoveAt(s, i)[j] = IF j < i THEN s[j] ELSE s[j + 1]
<1> DEFINE a == SubSeq(s, 1, i - 1)
           b == SubSeq(s, i + 1, Len(s))
<1>1. Len(s) \in Nat /\ \A j \in 1..Len(s) : s[j] \in Hook
  BY LenProperties, ElementOfSeq
<1>2. /\ a \in Seq(Hook) /\ Len(a) = i - 1 /\ \A j \in 1..(i - 1) : a[j] = s[j]
  <2>1. \A j \in 1..(i - 1) : s[j] \in Hook
    BY <1>1
  <2>2. /\ a \in Seq(Hook) /\ Len(a) = IF 1 <= i - 1 THEN (i - 1) - 1 + 1 ELSE 0
        /\ \A j \in 1..((i - 1) - 1 + 1) : a[j] = s[1 + j - 1]
    BY <1>1, <2>1, SubSeqProperties
  <2> HIDE DEF a
  <2>3. QED
    BY <1>1, <2>2
<1>3. /\ b \in Seq(Hook) /\ Len(b) = Len(s) - i
      /\ \A j \in 1..(Len(s) - i) : b[j] = s[i + j]
  <2>1. \A j \in (i + 1)..Len(s) : s[j] \in Hook
    BY <1>1
  <2>2. /\ b \in Seq(Hook) /\ Len(b) = IF i + 1 <= Len(s) THEN Len(s) - (i + 1) + 1 ELSE 0
        /\ \A j \in 1..(Len(s) - (i + 1) + 1) : b[j] = s[(i + 1) + j - 1]
    BY <1>1, <2>1, SubSeqProperties
  <2> HIDE DEF b
  <2>3. QED
    BY <1>1, <2>2
<1> HIDE DEF a, b
<1>4. RemoveAt(s, i) = a \o b
  BY DEF RemoveAt, a, b
<1>5. /\ a \o b \in Seq(Hook) /\ Len(a \o b) = Len(a) + Len(b)
      /\ \A j \in 1..(Len(a) + Len(b)) :
            (a \o b)[j] = IF j <= Len(a) THEN a[j] ELSE b[j - Len(a)]
  BY ZenonT(60), <1>2, <1>3, ConcatProperties
<1>6. Len(a) + Len(b) = Len(s) - 1
  BY <1>1, <1>2, <1>3
<1>7. ASSUME NEW j \in 1..(Len(s) - 1)
      PROVE  (a \o b)[j] = IF j < i THEN s[j] ELSE s[j + 1]
  <2>1. (a \o b)[j] = IF j <= Len(a) THEN a[j] ELSE b[j - Len(a)]
    BY <1>5, <1>6
  <2>2. CASE j < i
    <3>1. j <= Len(a) /\ j \in 1..(i - 1)
      BY <1>1, <1>2, <2>2
    <3>2. QED
      BY <1>2, <2>1, <2>2, <3>1
  <2>3. CASE ~(j < i)
    <3>1. ~(j <= Len(a)) /\ j - Len(a) \in 1..(Len(s) - i) /\ i + (j - Len(a)) = j + 1
      BY <1>1, <1>2, <2>3
    <3>2. QED
      BY <1>3, <2>1, <2>3, <3>1
  <2>4. QED
    BY <2>2, <2>3
<1>8. QED
  BY <1>4, <1>5, <1>6, <1>7

\* A hook has gone on.
Placed(s, m, i, h) ==
    IF m /\ i = Len(s) THEN [s EXCEPT ![i] = h]
    ELSE IF Inert(h) THEN RemoveAt(s, i)
    ELSE [s EXCEPT ![i] = Detached(h)]

LEMMA PlacedTrue ==
    ASSUME NEW s, NEW m, NEW o, NEW d, PageTrue(s, m, o, d),
           NEW i \in 1..Len(s), NEW h, Keeps(s[i], h)
    PROVE  PageTrue(Placed(s, m, i, h), m, o, d)
<1>1. s \in Seq(Hook) /\ Len(s) \in Nat /\ \A j \in 1..Len(s) : HookTrue(s[j])
  BY LenProperties DEF PageTrue, HooksTrue
<1>2. HookTrue(h) /\ h.kind = s[i].kind /\ (LetGo(s[i]) => LetGo(h))
  BY DEF Keeps
<1>3. ASSUME NEW g, HookTrue(g), g.kind = s[i].kind,
             ~(m /\ i = Len(s)) \/ WantKind(o, d) # "in" => LetGo(g),
             NEW t, t = [s EXCEPT ![i] = g]
      PROVE  PageTrue(t, m, o, d)
  <2>1. /\ t \in Seq(Hook) /\ Len(t) = Len(s)
        /\ \A j \in 1..Len(s) : t[j] = IF j = i THEN g ELSE s[j]
    BY <1>1, <1>3, ExceptSeq DEF HookTrue
  <2>2. HooksTrue(t)
    BY <1>1, <1>3, <2>1 DEF HooksTrue
  <2>3. t # <<>>
    BY <1>1, <2>1
  <2>4. m /\ t[Len(t)].kind = "in" => o = None
    <3>1. t[Len(t)].kind = s[Len(s)].kind
      BY SMTT(40), <1>1, <1>3, <2>1
    <3>2. QED
      BY <3>1 DEF PageTrue
  <2>5. \A j \in 1..Len(t) : ~(m /\ j = Len(t)) \/ WantKind(o, d) # "in" => LetGo(t[j])
    BY <1>3, <2>1 DEF PageTrue
  <2>6. QED
    BY <2>2, <2>3, <2>4, <2>5 DEF PageTrue
<1>4. ~(m /\ i = Len(s)) \/ WantKind(o, d) # "in" => LetGo(h)
  BY <1>2 DEF PageTrue
<1>5. CASE m /\ i = Len(s)
  BY <1>2, <1>3, <1>4, <1>5 DEF Placed
<1>6. CASE ~(m /\ i = Len(s)) /\ ~Inert(h)
  <2>1. HookTrue(Detached(h)) /\ LetGo(Detached(h))
    BY <1>2, <1>4, <1>6, DetachedTrue
  <2>2. Detached(h).kind = s[i].kind
    BY <1>2 DEF Detached, HookTrue, Hook
  <2>3. QED
    BY <1>3, <1>6, <2>1, <2>2 DEF Placed
<1>7. CASE ~(m /\ i = Len(s)) /\ Inert(h)
  <2> DEFINE t == RemoveAt(s, i)
  <2>1. Placed(s, m, i, h) = t
    BY <1>7 DEF Placed
  <2>2. /\ t \in Seq(Hook) /\ Len(t) = Len(s) - 1
        /\ \A j \in 1..(Len(s) - 1) : t[j] = IF j < i THEN s[j] ELSE s[j + 1]
    BY <1>1, RemoveReads
  <2> HIDE DEF t
  <2>3. \A j \in 1..Len(t) : \E k \in 1..Len(s) :
           t[j] = s[k] /\ (k = Len(s) /\ i # Len(s) => j = Len(t))
    <3> SUFFICES ASSUME NEW j \in 1..Len(t)
                 PROVE  \E k \in 1..Len(s) :
                           t[j] = s[k] /\ (k = Len(s) /\ i # Len(s) => j = Len(t))
      OBVIOUS
    <3>1. CASE j < i
      <4>1. j \in 1..Len(s) /\ t[j] = s[j] /\ j # Len(s)
        BY <1>1, <2>2, <3>1
      <4>2. QED
        BY <4>1
    <3>2. CASE ~(j < i)
      <4>1. j + 1 \in 1..Len(s) /\ t[j] = s[j + 1] /\ (j + 1 = Len(s) => j = Len(t))
        BY <1>1, <2>2, <3>2
      <4>2. QED
        BY <4>1
    <3>3. QED
      BY <3>1, <3>2
  <2>4. HooksTrue(t)
    BY <1>1, <2>2, <2>3 DEF HooksTrue
  <2>5. m => t # <<>> /\ t[Len(t)] = s[Len(s)]
    <3>1. SUFFICES ASSUME m PROVE t # <<>> /\ t[Len(t)] = s[Len(s)]
      OBVIOUS
    <3>2. i # Len(s) /\ Len(t) \in 1..(Len(s) - 1) /\ ~(Len(t) < i) /\ Len(t) + 1 = Len(s)
      BY <1>1, <1>7, <2>2, <3>1
    <3>3. QED
      BY <2>2, <3>2
  <2>6. ASSUME NEW j \in 1..Len(t), ~(m /\ j = Len(t)) \/ WantKind(o, d) # "in"
        PROVE  LetGo(t[j])
    <3>1. PICK k \in 1..Len(s) : t[j] = s[k] /\ (k = Len(s) /\ i # Len(s) => j = Len(t))
      BY <2>3
    <3>2. ~(m /\ k = Len(s)) \/ WantKind(o, d) # "in"
      BY <1>7, <2>6, <3>1
    <3>3. QED
      BY <3>1, <3>2 DEF PageTrue
  <2>7. QED
    BY <2>1, <2>4, <2>5, <2>6 DEF PageTrue
<1>8. QED
  BY <1>5, <1>6, <1>7

\* The mounted hook has gone on, and the calls of the store may have changed.
LEMMA MountedTrue ==
    ASSUME NEW s, NEW o, NEW d, PageTrue(s, TRUE, o, d), NEW h, HookTrue(h),
           h.kind = s[Len(s)].kind, NEW o2, NEW d2,
           WantKind(o2, d2) # "in" => LetGo(h),
           o2 # None => d2 = None, h.kind = "in" => o2 = None
    PROVE  PageTrue([s EXCEPT ![Len(s)] = h], TRUE, o2, d2)
<1> DEFINE t == [s EXCEPT ![Len(s)] = h]
<1>1. s \in Seq(Hook) /\ Len(s) \in Nat \ {0} /\ \A j \in 1..Len(s) : HookTrue(s[j])
  BY LenProperties, EmptySeq DEF PageTrue, HooksTrue
<1>2. /\ t \in Seq(Hook) /\ Len(t) = Len(s)
      /\ \A j \in 1..Len(s) : t[j] = IF j = Len(s) THEN h ELSE s[j]
  <2>1. Len(s) \in 1..Len(s) /\ h \in Hook
    BY <1>1 DEF HookTrue
  <2>2. QED
    BY <1>1, <2>1, ExceptSeq
<1> HIDE DEF t
<1>3. HooksTrue(t) /\ t # <<>> /\ t[Len(t)] = h
  BY <1>1, <1>2 DEF HooksTrue
<1>4. ASSUME NEW j \in 1..Len(t), j # Len(t) \/ WantKind(o2, d2) # "in"
      PROVE  LetGo(t[j])
  BY <1>1, <1>2, <1>4 DEF PageTrue
<1>5. QED
  BY <1>3, <1>4 DEF PageTrue, t

-----------------------------------------------------------------------------
\* The inductive invariant, and what a step of one page does to it.

NetTypes ==
    /\ online \in [Users -> BOOLEAN]
    /\ wire \in [Users -> [Users -> Seq(Signal)]]
    /\ missed \in BOOLEAN
    /\ calls \in 0..MaxCalls /\ noise \in 0..MaxNoise

StoreTypes ==
    /\ outgoingCall \in [Users -> Users \cup {None}]
    /\ callData \in [Users -> Users \cup {None}]
    /\ hooks \in [Users -> Seq(Hook)]
    /\ mounted \in [Users -> BOOLEAN]

CallInv ==
    /\ NetTypes /\ StoreTypes
    /\ \A u \in Users : PageTrue(hooks[u], mounted[u], outgoingCall[u], callData[u])

LEMMA PageFacts ==
    ASSUME CallInv, NEW u \in Users
    PROVE  /\ hooks[u] \in Seq(Hook) /\ DOMAIN hooks[u] = 1..Len(hooks[u])
           /\ Len(hooks[u]) \in Nat /\ mounted[u] \in BOOLEAN
           /\ outgoingCall[u] \in Users \cup {None} /\ callData[u] \in Users \cup {None}
           /\ PageTrue(hooks[u], mounted[u], outgoingCall[u], callData[u])
           /\ \A i \in 1..Len(hooks[u]) : HookTrue(hooks[u][i])
           /\ mounted[u] => /\ hooks[u] # <<>> /\ Len(hooks[u]) \in 1..Len(hooks[u])
                            /\ Session(u) = hooks[u][Len(hooks[u])]
                            /\ HookTrue(Session(u)) /\ Session(u).peer \in Users
           /\ Want(u).kind = WantKind(outgoingCall[u], callData[u])
<1>1. /\ hooks[u] \in Seq(Hook) /\ mounted[u] \in BOOLEAN
      /\ outgoingCall[u] \in Users \cup {None} /\ callData[u] \in Users \cup {None}
      /\ PageTrue(hooks[u], mounted[u], outgoingCall[u], callData[u])
  BY DEF CallInv, StoreTypes
<1>2. Len(hooks[u]) \in Nat /\ DOMAIN hooks[u] = 1..Len(hooks[u])
  BY <1>1, LenProperties
<1>3. \A i \in 1..Len(hooks[u]) : HookTrue(hooks[u][i])
  BY <1>1 DEF PageTrue, HooksTrue
<1>4. ASSUME mounted[u]
      PROVE  /\ hooks[u] # <<>> /\ Len(hooks[u]) \in 1..Len(hooks[u])
             /\ Session(u) = hooks[u][Len(hooks[u])]
             /\ HookTrue(Session(u)) /\ Session(u).peer \in Users
  <2>1. hooks[u] # <<>>
    BY <1>1, <1>4 DEF PageTrue
  <2>2. Len(hooks[u]) \in 1..Len(hooks[u])
    BY <1>1, <1>2, <2>1, EmptySeq
  <2>3. Session(u) = hooks[u][Len(hooks[u])]
    BY DEF Session, Last
  <2>4. HookTrue(Session(u))
    BY <1>3, <2>2, <2>3
  <2>5. Session(u).peer \in Users
    BY <2>4, HookFields DEF HookTrue
  <2>6. QED
    BY <2>1, <2>2, <2>3, <2>4, <2>5
<1>5. Want(u).kind = WantKind(outgoingCall[u], callData[u])
  BY DEF Want, WantKind
<1>6. QED
  BY <1>1, <1>2, <1>3, <1>4, <1>5

LEMMA PageStep ==
    ASSUME CallInv, NetTypes', NEW u \in Users, NEW s, NEW m \in BOOLEAN,
           NEW o \in Users \cup {None}, NEW d \in Users \cup {None}, PageTrue(s, m, o, d),
           hooks' = [hooks EXCEPT ![u] = s], mounted' = [mounted EXCEPT ![u] = m],
           outgoingCall' = [outgoingCall EXCEPT ![u] = o],
           callData' = [callData EXCEPT ![u] = d]
    PROVE  CallInv'
<1>1. s \in Seq(Hook)
  BY DEF PageTrue, HooksTrue
<1>2. StoreTypes'
  BY <1>1 DEF CallInv, StoreTypes
<1>3. /\ hooks'[u] = s /\ mounted'[u] = m /\ outgoingCall'[u] = o /\ callData'[u] = d
      /\ \A w \in Users \ {u} : /\ hooks'[w] = hooks[w] /\ mounted'[w] = mounted[w]
                                /\ outgoingCall'[w] = outgoingCall[w]
                                /\ callData'[w] = callData[w]
  BY DEF CallInv, StoreTypes
<1>4. \A w \in Users : PageTrue(hooks'[w], mounted'[w], outgoingCall'[w], callData'[w])
  <2>1. SUFFICES ASSUME NEW w \in Users
                 PROVE  PageTrue(hooks'[w], mounted'[w], outgoingCall'[w], callData'[w])
    OBVIOUS
  <2>2. CASE w = u
    BY <1>3, <2>2
  <2>3. CASE w # u
    BY <1>3, <2>3 DEF CallInv
  <2>4. QED
    BY <2>2, <2>3
<1>5. QED
  BY <1>2, <1>4 DEF CallInv

\* What does not change changes to itself.
LEMMA Same ==
    ASSUME CallInv, NEW u \in Users
    PROVE  /\ hooks = [hooks EXCEPT ![u] = hooks[u]]
           /\ mounted = [mounted EXCEPT ![u] = mounted[u]]
           /\ outgoingCall = [outgoingCall EXCEPT ![u] = outgoingCall[u]]
           /\ callData = [callData EXCEPT ![u] = callData[u]]
<1>1. /\ outgoingCall \in [Users -> Users \cup {None}]
      /\ callData \in [Users -> Users \cup {None}]
      /\ hooks \in [Users -> Seq(Hook)]
      /\ mounted \in [Users -> BOOLEAN]
  BY DEF CallInv, StoreTypes
<1>2. hooks = [hooks EXCEPT ![u] = hooks[u]] /\ mounted = [mounted EXCEPT ![u] = mounted[u]]
  BY <1>1
<1>3. /\ outgoingCall = [outgoingCall EXCEPT ![u] = outgoingCall[u]]
      /\ callData = [callData EXCEPT ![u] = callData[u]]
  BY <1>1
<1>4. QED
  BY <1>2, <1>3

LEMMA StoresRest ==
    ASSUME CallInv, NetTypes', UNCHANGED <<outgoingCall, callData, hooks, mounted>>
    PROVE  CallInv'
BY DEF CallInv, StoreTypes

\* A hook goes on.
LEMMA PutStep ==
    ASSUME CallInv, NetTypes', NEW u \in Users, NEW i \in DOMAIN hooks[u],
           NEW h, Keeps(hooks[u][i], h), Put(u, i, h),
           UNCHANGED <<outgoingCall, callData, mounted>>
    PROVE  CallInv'
<1> DEFINE s == Placed(hooks[u], mounted[u], i, h)
<1>1. i \in 1..Len(hooks[u])
  BY PageFacts
<1>2. PageTrue(s, mounted[u], outgoingCall[u], callData[u])
  BY <1>1, PageFacts, PlacedTrue
<1>3. hooks' = [hooks EXCEPT ![u] = s]
  BY DEF Put, Placed, IsSession
<1> HIDE DEF s
<1>4. /\ mounted[u] \in BOOLEAN
      /\ outgoingCall[u] \in Users \cup {None} /\ callData[u] \in Users \cup {None}
  BY PageFacts
<1>5. /\ mounted' = [mounted EXCEPT ![u] = mounted[u]]
      /\ outgoingCall' = [outgoingCall EXCEPT ![u] = outgoingCall[u]]
      /\ callData' = [callData EXCEPT ![u] = callData[u]]
  BY Same
<1>6. PICK m \in BOOLEAN, o \in Users \cup {None}, d \in Users \cup {None} :
         m = mounted[u] /\ o = outgoingCall[u] /\ d = callData[u]
  BY <1>4
<1>7. PageTrue(s, m, o, d)
  BY <1>2, <1>6
<1>8. /\ mounted' = [mounted EXCEPT ![u] = m]
      /\ outgoingCall' = [outgoingCall EXCEPT ![u] = o]
      /\ callData' = [callData EXCEPT ![u] = d]
  BY <1>5, <1>6
<1>9. CASE m = TRUE
  BY <1>3, <1>7, <1>8, <1>9, PageStep
<1>10. CASE m = FALSE
  BY <1>3, <1>7, <1>8, <1>10, PageStep
<1>11. QED
  BY <1>9, <1>10

\* The mounted session goes on.
LEMMA SessionStep ==
    ASSUME CallInv, NetTypes', NEW u \in Users, mounted[u],
           NEW h, HookTrue(h), h.kind = Session(u).kind, PutSession(u, h),
           NEW o \in Users \cup {None}, NEW d \in Users \cup {None},
           WantKind(o, d) # "in" => LetGo(h), o # None => d = None,
           h.kind = "in" => o = None,
           outgoingCall' = [outgoingCall EXCEPT ![u] = o],
           callData' = [callData EXCEPT ![u] = d], UNCHANGED mounted
    PROVE  CallInv'
<1> DEFINE s == [hooks[u] EXCEPT ![Len(hooks[u])] = h]
<1>1. Session(u) = hooks[u][Len(hooks[u])]
  BY PageFacts
<1>2. mounted[u] = TRUE
  BY PageFacts
<1>3. PageTrue(s, TRUE, o, d)
  <2>1. PageTrue(hooks[u], TRUE, outgoingCall[u], callData[u])
    BY <1>2, PageFacts
  <2>2. QED
    BY <1>1, <2>1, MountedTrue
<1>4. hooks' = [hooks EXCEPT ![u] = s]
  BY DEF PutSession
<1> HIDE DEF s
<1>5. mounted' = [mounted EXCEPT ![u] = TRUE]
  BY <1>2, Same
<1>6. QED
  BY <1>3, <1>4, <1>5, PageStep

\* The session goes on and the store stays.
LEMMA SessionKeeps ==
    ASSUME CallInv, NetTypes', NEW u \in Users, mounted[u],
           NEW h, Keeps(Session(u), h), PutSession(u, h),
           UNCHANGED <<outgoingCall, callData, mounted>>
    PROVE  CallInv'
<1> DEFINE o == outgoingCall[u]
           d == callData[u]
           S == Session(u)
<1>1. /\ o \in Users \cup {None} /\ d \in Users \cup {None}
      /\ PageTrue(hooks[u], mounted[u], o, d)
      /\ S = hooks[u][Len(hooks[u])] /\ Len(hooks[u]) \in 1..Len(hooks[u])
  BY PageFacts
<1>2. /\ WantKind(o, d) # "in" => LetGo(S)
      /\ o # None => d = None /\ (S.kind = "in" => o = None)
  BY <1>1 DEF PageTrue
<1>3. /\ HookTrue(h) /\ h.kind = S.kind /\ (LetGo(S) => LetGo(h))
  BY DEF Keeps
<1>4. /\ outgoingCall' = [outgoingCall EXCEPT ![u] = o]
      /\ callData' = [callData EXCEPT ![u] = d]
  BY Same
<1>5. o # None => d = None
  BY <1>1 DEF PageTrue
<1>6. h.kind = "in" => o = None
  BY <1>1, <1>3 DEF PageTrue
<1> HIDE DEF o, d, S
<1>7. QED
  BY <1>1, <1>2, <1>3, <1>4, <1>5, <1>6, SessionStep DEF S

LEMMA SendTypes ==
    ASSUME NetTypes, NEW u \in Users, NEW v \in Users, NEW m \in Signal, Send(u, v, m)
    PROVE  wire' \in [Users -> [Users -> Seq(Signal)]]
<1>1. wire[u][v] \in Seq(Signal) /\ wire[u] \in [Users -> Seq(Signal)]
  BY DEF NetTypes
<1>2. Append(wire[u][v], m) \in Seq(Signal)
  BY <1>1
<1>3. [wire EXCEPT ![u][v] = Append(@, m)] \in [Users -> [Users -> Seq(Signal)]]
  BY <1>1, <1>2 DEF NetTypes
<1>4. QED
  BY <1>3 DEF Send, NetTypes

LEMMA CallInit == Init => CallInv
<1> SUFFICES ASSUME Init PROVE CallInv
  OBVIOUS
<1>1. NetTypes
  <2>1. <<>> \in Seq(Signal)
    BY EmptySeq
  <2>2. online \in [Users -> BOOLEAN] /\ wire \in [Users -> [Users -> Seq(Signal)]]
    BY <2>1 DEF Init
  <2>3. missed = FALSE /\ calls = 0 /\ noise = 0
    BY DEF Init
  <2>4. calls \in 0..MaxCalls /\ noise \in 0..MaxNoise
    BY <2>3
  <2>5. QED
    BY <2>2, <2>3, <2>4 DEF NetTypes
<1>2. StoreTypes
  <2>1. <<>> \in Seq(Hook)
    BY EmptySeq
  <2>2. QED
    BY <2>1 DEF Init, StoreTypes
<1>3. ASSUME NEW u \in Users
      PROVE  PageTrue(hooks[u], mounted[u], outgoingCall[u], callData[u])
  <2>1. /\ hooks[u] = <<>> /\ mounted[u] = FALSE
        /\ outgoingCall[u] = None /\ callData[u] = None
    BY DEF Init
  <2>2. <<>> \in Seq(Hook) /\ Len(<<>>) = 0
    BY EmptySeq
  <2>3. HooksTrue(<<>>)
    BY <2>2 DEF HooksTrue
  <2>4. QED
    BY <2>1, <2>2, <2>3 DEF PageTrue
<1>4. QED
  BY <1>1, <1>2, <1>3 DEF CallInv

-----------------------------------------------------------------------------
\* The actions.

LEMMA HookStepKept ==
    ASSUME CallInv, NEW u \in Users, NEW i \in DOMAIN hooks[u], HookStep(u, i)
    PROVE  CallInv'
<1> DEFINE h == hooks[u][i]
<1>1. HookTrue(h) /\ h.peer \in Users
  BY PageFacts, HookFields DEF HookTrue
<1>2. NetTypes
  BY DEF CallInv
<1>3. CASE MediaForCall(u, i)
  <2>1. h.job = "media" /\ UNCHANGED <<outgoingCall, callData, mounted, online, wire, missed, calls, noise>>
    BY <1>3 DEF MediaForCall
  <2>2. NetTypes'
    BY <1>2, <2>1 DEF NetTypes
  <2>3. PICK g : Put(u, i, g) /\ Keeps(h, g)
    <3>1. \/ Put(u, i, [CreatePeerConnection(GotMedia(h)) EXCEPT !.job = "offering"])
          \/ Put(u, i, [CleanupCall(h) EXCEPT !.job = "none"])
      BY <1>3 DEF MediaForCall
    <3>2. /\ Keeps(h, [CreatePeerConnection(GotMedia(h)) EXCEPT !.job = "offering"])
          /\ Keeps(h, [CleanupCall(h) EXCEPT !.job = "none"])
      BY <1>1, <2>1, MediaKeeps, FailureKeeps
    <3>3. QED
      BY <3>1, <3>2
  <2>4. QED
    BY <2>1, <2>2, <2>3, PutStep
<1>4. CASE OfferMade(u, i)
  <2>1. /\ h.job = "offering" /\ UNCHANGED <<outgoingCall, callData, mounted, online, calls, noise>>
        /\ Put(u, i, [h EXCEPT !.job = "none", !.pc = "offered",
                               !.isCallActive = TRUE, !.status = "calling"])
        /\ Send(u, h.peer, "offer") /\ missed' \in BOOLEAN
    BY <1>4 DEF OfferMade, Miss
  <2>2. wire' \in [Users -> [Users -> Seq(Signal)]]
    BY <1>1, <1>2, <2>1, SendTypes DEF Signal
  <2>3. NetTypes'
    BY <1>2, <2>1, <2>2 DEF NetTypes
  <2>4. Keeps(h, [h EXCEPT !.job = "none", !.pc = "offered",
                           !.isCallActive = TRUE, !.status = "calling"])
    BY <1>1, <2>1, OfferKeeps
  <2>5. QED
    BY <2>1, <2>3, <2>4, PutStep
<1>5. CASE OfferFails(u, i)
  <2>1. /\ UNCHANGED <<outgoingCall, callData, mounted, online, wire, missed, calls, noise>>
        /\ Put(u, i, [CleanupCall(h) EXCEPT !.job = "none"])
    BY <1>5 DEF OfferFails
  <2>2. NetTypes'
    BY <1>2, <2>1 DEF NetTypes
  <2>3. Keeps(h, [CleanupCall(h) EXCEPT !.job = "none"])
    BY <1>1, FailureKeeps
  <2>4. QED
    BY <2>1, <2>2, <2>3, PutStep
<1>6. CASE RemoteSet(u, i)
  <2>1. /\ UNCHANGED <<outgoingCall, callData, mounted, online, wire, missed, calls, noise>>
        /\ h.job \in {"asking", "answered"}
        /\ \/ Put(u, i, IF h.job = "asking" THEN [h EXCEPT !.pc = "asked", !.job = "drainOffer"]
                        ELSE [h EXCEPT !.pc = "stable", !.job = "drainAnswer"])
           \/ Put(u, i, CleanupCall(h))
    BY <1>6 DEF RemoteSet
  <2>2. NetTypes'
    BY SMTT(40), <1>2, <2>1 DEF NetTypes
  <2>3. /\ Keeps(h, IF h.job = "asking" THEN [h EXCEPT !.pc = "asked", !.job = "drainOffer"]
                    ELSE [h EXCEPT !.pc = "stable", !.job = "drainAnswer"])
        /\ Keeps(h, CleanupCall(h))
    BY <1>1, <2>1, RemoteKeeps, CleanupTrue
  <2>4. QED
    BY <2>1, <2>2, <2>3, PutStep
<1>7. CASE Drained(u, i)
  <2> DEFINE g == IF h.job = "drainOffer"
                    THEN [Drain(h) EXCEPT !.isIncomingCall = TRUE, !.isCallActive = TRUE,
                                          !.status = "ringing"]
                    ELSE [Drain(h) EXCEPT !.status = "connected"]
  <2>1. /\ UNCHANGED <<outgoingCall, callData, mounted, online, wire, missed, calls, noise>>
        /\ h.job \in {"drainOffer", "drainAnswer"} /\ Put(u, i, g)
    BY <1>7 DEF Drained
  <2>2. NetTypes'
    BY <1>2, <2>1 DEF NetTypes
  <2>3. Keeps(h, g)
    BY <1>1, <2>1, DrainKeeps
  <2> HIDE DEF g
  <2>4. QED
    BY <2>1, <2>2, <2>3, PutStep
<1>8. CASE MediaForAnswer(u, i)
  <2> DEFINE k == [h EXCEPT !.answers = @ - 1]
  <2>1. /\ UNCHANGED <<outgoingCall, callData, mounted, online, wire, missed, calls, noise>>
        /\ h.answers > 0
        /\ \/ Put(u, i, IF k.pc = "none" THEN CleanupCall(GotMedia(k))
                        ELSE [GotMedia(k) EXCEPT !.making = @ + 1])
           \/ Put(u, i, CleanupCall(k))
    BY <1>8 DEF MediaForAnswer
  <2>2. NetTypes'
    BY <1>2, <2>1 DEF NetTypes
  <2>3. /\ Keeps(h, CleanupCall(k)) /\ Keeps(h, CleanupCall(GotMedia(k)))
        /\ h.pc # "none" => Keeps(h, [GotMedia(k) EXCEPT !.making = @ + 1])
        /\ k.pc = h.pc
    BY <1>1, <2>1, PromptKeeps
  <2> HIDE DEF k
  <2>4. \E g : Put(u, i, g) /\ Keeps(h, g)
    <3>1. CASE Put(u, i, CleanupCall(k))
      BY <2>3, <3>1
    <3>2. CASE k.pc = "none" /\ Put(u, i, CleanupCall(GotMedia(k)))
      BY <2>3, <3>2
    <3>3. CASE k.pc # "none" /\ Put(u, i, [GotMedia(k) EXCEPT !.making = @ + 1])
      BY <2>3, <3>3
    <3>4. QED
      BY <2>1, <3>1, <3>2, <3>3
  <2>5. QED
    BY <2>1, <2>2, <2>4, PutStep
<1>9. CASE AnswerMade(u, i)
  <2> DEFINE k == [h EXCEPT !.making = @ - 1]
             g == [k EXCEPT !.pc = "stable", !.isIncomingCall = FALSE, !.status = "connected"]
  <2>1. /\ UNCHANGED <<outgoingCall, callData, mounted, online, calls, noise>>
        /\ h.making > 0
        /\ IF k.pc = "asked"
             THEN Put(u, i, g) /\ Send(u, k.peer, "answer") /\ Miss(Lost(u, k.peer))
             ELSE Put(u, i, CleanupCall(k)) /\ UNCHANGED <<wire, missed>>
    BY <1>9 DEF AnswerMade
  <2>2. /\ Keeps(h, CleanupCall(k)) /\ k.peer = h.peer
        /\ k.pc = "asked" => Keeps(h, g)
    BY <1>1, <2>1, AnswerKeeps
  <2> HIDE DEF g, k
  <2>3. CASE k.pc = "asked"
    <3>1. Put(u, i, g) /\ Send(u, k.peer, "answer") /\ missed' \in BOOLEAN
      BY <2>1, <2>3 DEF Miss
    <3>2. wire' \in [Users -> [Users -> Seq(Signal)]]
      BY <1>1, <1>2, <2>2, <3>1, SendTypes DEF Signal
    <3>3. NetTypes'
      BY <1>2, <2>1, <3>1, <3>2 DEF NetTypes
    <3>4. QED
      BY <2>1, <2>2, <2>3, <3>1, <3>3, PutStep
  <2>4. CASE k.pc # "asked"
    <3>1. Put(u, i, CleanupCall(k)) /\ UNCHANGED <<wire, missed>>
      BY <2>1, <2>4
    <3>2. NetTypes'
      BY <1>2, <2>1, <3>1 DEF NetTypes
    <3>3. QED
      BY <2>1, <2>2, <3>1, <3>2, PutStep
  <2>5. QED
    BY <2>3, <2>4
<1>10. CASE OnIceCandidate(u, i)
  <2>1. /\ noise < MaxNoise /\ noise' = noise + 1 /\ Send(u, h.peer, "candidate")
        /\ UNCHANGED <<outgoingCall, callData, hooks, mounted, online, missed, calls>>
    BY <1>10 DEF OnIceCandidate
  <2>2. wire' \in [Users -> [Users -> Seq(Signal)]]
    BY <1>1, <1>2, <2>1, SendTypes DEF Signal
  <2>3. noise' \in 0..MaxNoise
    BY <1>2, <2>1 DEF NetTypes
  <2>4. NetTypes'
    BY <1>2, <2>1, <2>2, <2>3 DEF NetTypes
  <2>5. QED
    BY <2>1, <2>4, StoresRest
<1>11. CASE OnConnectionStateChange(u, i)
  <2>1. /\ UNCHANGED <<outgoingCall, callData, mounted, online, wire, missed, calls, noise>>
        /\ h.pc = "stable"
        /\ \/ Put(u, i, [h EXCEPT !.status = "connected"])
           \/ Put(u, i, CleanupCall(h))
    BY <1>11 DEF OnConnectionStateChange
  <2>2. NetTypes'
    BY <1>2, <2>1 DEF NetTypes
  <2>3. Keeps(h, [h EXCEPT !.status = "connected"]) /\ Keeps(h, CleanupCall(h))
    BY <1>1, <2>1, ConnectedKeeps, CleanupTrue
  <2>4. CASE Put(u, i, [h EXCEPT !.status = "connected"])
    BY <2>1, <2>2, <2>3, <2>4, PutStep
  <2>5. CASE Put(u, i, CleanupCall(h))
    BY <2>1, <2>2, <2>3, <2>5, PutStep
  <2>6. QED
    BY <2>1, <2>4, <2>5
<1>12. QED
  BY <1>3, <1>4, <1>5, <1>6, <1>7, <1>8, <1>9, <1>10, <1>11, Zenon DEF HookStep

\* React commits what the listener renders.
LEMMA RenderKept ==
    ASSUME CallInv, NEW u \in Users, Render(u)
    PROVE  CallInv'
<1> DEFINE s == hooks[u]
           o == outgoingCall[u]
           d == callData[u]
           w == Want(u)
<1>1. /\ o \in Users \cup {None} /\ d \in Users \cup {None}
      /\ PageTrue(s, mounted[u], o, d) /\ HooksTrue(s)
      /\ w.kind = WantKind(o, d) /\ w # Shown(u)
      /\ o # None => d = None
      /\ UNCHANGED <<outgoingCall, callData, online, wire, calls, noise>>
  BY PageFacts DEF PageTrue, Render
<1>2. /\ outgoingCall' = [outgoingCall EXCEPT ![u] = o]
      /\ callData' = [callData EXCEPT ![u] = d]
  BY <1>1, Same
<1>3. ASSUME missed' \in BOOLEAN PROVE NetTypes'
  BY <1>1, <1>3 DEF NetTypes, CallInv
<1>4. ASSUME w.kind # Shown(u).kind
      PROVE  /\ HooksTrue(Remaining(s))
             /\ \A k \in 1..Len(Remaining(s)) : LetGo(Remaining(s)[k])
  <2>1. \A i \in 1..Len(s) : LetGo(s[i])
    <3>1. SUFFICES ASSUME NEW i \in 1..Len(s) PROVE LetGo(s[i])
      OBVIOUS
    <3>2. CASE ~(mounted[u] /\ i = Len(s)) \/ w.kind # "in"
      BY <1>1, <3>2 DEF PageTrue
    <3>3. CASE mounted[u] /\ i = Len(s) /\ w.kind = "in"
      <4>1. Shown(u).kind = s[i].kind
        BY <3>3, PageFacts DEF Shown
      <4>2. s[i].kind # "in"
        BY <1>4, <3>3, <4>1
      <4>3. QED
        BY <4>2 DEF LetGo
    <3>4. QED
      BY <3>2, <3>3
  <2>2. ASSUME NEW k \in 1..Len(Remaining(s)) PROVE LetGo(Remaining(s)[k])
    <3>1. PICK i \in 1..Len(s) : Remaining(s)[k] = Detached(s[i])
      BY <1>1, RemainingReads
    <3>2. HookTrue(s[i]) /\ LetGo(s[i])
      BY <1>1, <2>1 DEF HooksTrue
    <3>3. QED
      BY <3>1, <3>2, DetachedTrue
  <2>3. QED
    BY <1>1, <2>2, RemainingReads
<1>5. CASE w.kind = "none"
  <2> DEFINE r == Remaining(s)
  <2>1. /\ mounted' = [mounted EXCEPT ![u] = FALSE] /\ hooks' = [hooks EXCEPT ![u] = r]
        /\ UNCHANGED missed
    BY <1>5 DEF Render
  <2>2. w.kind # Shown(u).kind
    <3>1. w = [kind |-> "none", peer |-> None]
      BY <1>5 DEF Want
    <3>2. mounted[u]
      BY <1>1, <3>1 DEF Shown
    <3>3. Shown(u).kind \in {"out", "in"}
      BY <3>2, PageFacts, HookFields DEF Shown, HookTrue
    <3>4. QED
      BY <1>5, <3>3
  <2>3. HooksTrue(r) /\ \A k \in 1..Len(r) : LetGo(r[k])
    BY <1>4, <2>2
  <2> HIDE DEF r
  <2>4. PageTrue(r, FALSE, o, d)
    BY <1>1, <2>3 DEF PageTrue
  <2>5. missed' \in BOOLEAN
    BY <2>1 DEF CallInv, NetTypes
  <2>6. QED
    BY <1>1, <1>2, <1>3, <2>1, <2>4, <2>5, PageStep
<1>6. CASE w.kind # "none" /\ w.kind # Shown(u).kind
  <2> DEFINE r == Remaining(s)
             n == NewHook(w.kind, w.peer)
             t == Append(r, n)
  <2>1. /\ mounted' = [mounted EXCEPT ![u] = TRUE] /\ hooks' = [hooks EXCEPT ![u] = t]
        /\ UNCHANGED missed
    BY <1>6 DEF Render
  <2>2. w.kind \in {"out", "in"} /\ w.peer \in Users /\ (w.kind = "in" => o = None)
    BY <1>1, <1>6 DEF Want
  <2>3. HooksTrue(r) /\ \A k \in 1..Len(r) : LetGo(r[k])
    BY <1>4, <1>6
  <2>4. HookTrue(n) /\ n.kind = w.kind /\ (w.kind # "in" => LetGo(n))
    BY <2>2, NewHookTrue DEF LetGo
  <2> HIDE DEF r, n
  <2>5. /\ t \in Seq(Hook) /\ Len(r) \in Nat /\ Len(t) = Len(r) + 1
        /\ \A i \in 1..Len(r) : t[i] = r[i]
        /\ t[Len(r) + 1] = n
        /\ \A i \in 1..Len(t) : i \in 1..Len(r) \/ i = Len(r) + 1
    BY <2>3, <2>4, AppendProperties, LenProperties DEF HooksTrue, HookTrue
  <2> HIDE DEF t
  <2>6. HooksTrue(t) /\ t # <<>>
    BY <2>3, <2>4, <2>5 DEF HooksTrue
  <2>7. PageTrue(t, TRUE, o, d)
    BY <1>1, <2>2, <2>3, <2>4, <2>5, <2>6 DEF PageTrue
  <2>8. missed' \in BOOLEAN
    BY <2>1 DEF CallInv, NetTypes
  <2>9. QED
    BY <1>1, <1>2, <1>3, <2>1, <2>7, <2>8, PageStep
<1>7. CASE w.kind # "none" /\ w.kind = Shown(u).kind
  <2> DEFINE S == Session(u)
             h == [S EXCEPT !.peer = w.peer]
  <2>1. PutSession(u, h) /\ missed' \in BOOLEAN /\ UNCHANGED mounted
    BY <1>7 DEF Render, CallInv, NetTypes
  <2>2. mounted[u] /\ S.kind = w.kind
    BY <1>7 DEF Shown
  <2>3. HookTrue(S) /\ S \in Hook /\ S = s[Len(s)] /\ w.peer \in Users
    BY <1>1, <1>7, <2>2, PageFacts DEF HookTrue, Want
  <2>4. HookTrue(h) /\ h.kind = S.kind /\ (LetGo(S) => LetGo(h))
    <3>1. h \in Hook
      BY <2>3 DEF Hook
    <3>2. /\ h.kind = S.kind /\ h.pc = S.pc /\ h.job = S.job /\ h.camera = S.camera
          /\ h.answers = S.answers /\ h.making = S.making
          /\ h.added = S.added /\ h.pending = S.pending /\ h.heard = S.heard
      BY <2>3 DEF Hook
    <3> HIDE DEF h, S
    <3>3. QED
      BY <2>3, <3>1, <3>2 DEF HookTrue, JobTrue, Counted, Fresh, HasRemote, LetGo
  <2>5. WantKind(o, d) # "in" => LetGo(h)
    <3>1. WantKind(o, d) # "in" => S.kind # "in"
      BY <1>1, <2>2
    <3>2. QED
      BY <2>4, <3>1 DEF LetGo
  <2>6. h.kind = "in" => o = None
    BY <2>2, <2>3, <2>4, <1>1 DEF PageTrue
  <2>7. NetTypes'
    BY <1>3, <2>1
  <2>8. h.kind = Session(u).kind /\ HookTrue(h)
    BY <2>4
  <2> HIDE DEF h, S, o, d, w
  <2>9. QED
    BY ZenonT(60), <1>1, <1>2, <2>1, <2>2, <2>5, <2>6, <2>7, <2>8, SessionStep
<1>8. QED
  BY <1>5, <1>6, <1>7

LEMMA CallClickKept ==
    ASSUME CallInv, NEW u \in Users, NEW v \in Users, CallClick(u, v)
    PROVE  CallInv'
<1> DEFINE s == hooks[u]
<1>1. /\ calls < MaxCalls /\ calls' = calls + 1 /\ Want(u).kind = "none" /\ ~mounted[u]
      /\ outgoingCall' = [outgoingCall EXCEPT ![u] = v]
      /\ UNCHANGED <<callData, hooks, mounted, online, wire, missed, noise>>
  BY DEF CallClick
<1>2. calls' \in 0..MaxCalls
  BY <1>1 DEF CallInv, NetTypes
<1>3. NetTypes'
  BY <1>1, <1>2 DEF CallInv, NetTypes
<1>4. PageTrue(s, mounted[u], outgoingCall[u], callData[u]) /\ mounted[u] \in BOOLEAN
  BY PageFacts
<1>5. mounted[u] = FALSE
  BY <1>1, <1>4
<1>6. outgoingCall[u] = None /\ callData[u] = None
  BY <1>1, PageFacts DEF WantKind
<1>7. PageTrue(s, FALSE, v, None)
  BY <1>4, <1>5, <1>6 DEF PageTrue, WantKind
<1>8. /\ hooks' = [hooks EXCEPT ![u] = s]
      /\ mounted' = [mounted EXCEPT ![u] = FALSE]
      /\ callData' = [callData EXCEPT ![u] = None]
  BY <1>1, <1>5, <1>6, Same
<1> HIDE DEF s
<1>9. QED
  BY <1>1, <1>3, <1>7, <1>8, PageStep

LEMMA AnswerClickKept ==
    ASSUME CallInv, NEW u \in Users, AnswerClick(u)
    PROVE  CallInv'
<1> DEFINE S == Session(u)
           k == StopMediaTracks(S)
           h == [k EXCEPT !.answers = @ + 1]
<1>1. /\ Want(u) = Shown(u) /\ S.answers + S.making < MaxAnswers
      /\ PutSession(u, h)
      /\ UNCHANGED <<outgoingCall, callData, mounted, online, wire, missed, calls, noise>>
  BY DEF AnswerClick, Settled
<1>2. mounted[u]
  BY DEF AnswerClick, Settled
<1>3. NetTypes'
  BY <1>1 DEF CallInv, NetTypes
<1>4. HookTrue(S) /\ S \in Hook /\ S = hooks[u][Len(hooks[u])]
  BY <1>2, PageFacts DEF HookTrue
<1>5. S.answers \in Nat /\ S.making \in Nat
  BY <1>4, HookFields
<1> DEFINE o == outgoingCall[u]
           d == callData[u]
<1>6. PageTrue(hooks[u], mounted[u], o, d) /\ o \in Users \cup {None} /\ d \in Users \cup {None}
  BY PageFacts
<1>7. Keeps(S, k) /\ k \in Hook /\ k.answers = S.answers /\ k.making = S.making
  BY ZenonT(60), <1>4, StopKeeps DEF Keeps, HookTrue, Hook, StopMediaTracks
<1> HIDE DEF k
<1>8. PICK n \in 0..MaxAnswers : n = k.answers + 1
  BY <1>1, <1>5, <1>7
<1>9. h = [k EXCEPT !.answers = n]
  BY <1>7, <1>8
<1>10. h \in Hook
  BY <1>7, <1>8, <1>9 DEF Hook
<1>11. /\ h.kind = k.kind /\ h.pc = k.pc /\ h.job = k.job /\ h.camera = k.camera
       /\ h.answers = n /\ h.making = k.making /\ h.peer = k.peer
       /\ h.added = k.added /\ h.pending = k.pending /\ h.heard = k.heard
  BY <1>7, <1>9 DEF Hook
<1> HIDE DEF h
<1>12. h.answers + h.making <= MaxAnswers
  BY <1>1, <1>5, <1>7, <1>8, <1>11
<1>13. JobTrue(h) /\ Counted(h) /\ (LetGo(k) => LetGo(h))
  BY <1>7, <1>11 DEF Keeps, HookTrue, JobTrue, Counted, Fresh, HasRemote, LetGo
<1>14. Keeps(k, h)
  BY <1>10, <1>11, <1>12, <1>13 DEF Keeps, HookTrue
<1>15. Keeps(Session(u), h)
  BY <1>7, <1>14, KeepsTwice DEF S
<1>16. QED
  BY <1>1, <1>2, <1>3, <1>15, SessionKeeps

\* What the end of a session does to the calls of the store.
LEMMA EndStores ==
    ASSUME CallInv, NEW u \in Users, mounted[u],
           OnEnd(u) \/ UNCHANGED <<outgoingCall, callData>>
    PROVE  \E o \in Users \cup {None}, d \in Users \cup {None} :
              /\ outgoingCall' = [outgoingCall EXCEPT ![u] = o]
              /\ callData' = [callData EXCEPT ![u] = d]
              /\ o # None => d = None
              /\ Session(u).kind = "in" => o = None
<1> DEFINE a == outgoingCall[u]
           b == callData[u]
<1>1. /\ a \in Users \cup {None} /\ b \in Users \cup {None}
      /\ PageTrue(hooks[u], mounted[u], a, b)
      /\ Session(u) = hooks[u][Len(hooks[u])]
  BY PageFacts
<1>2. (a # None => b = None) /\ (Session(u).kind = "in" => a = None)
  BY <1>1 DEF PageTrue
<1>3. /\ outgoingCall = [outgoingCall EXCEPT ![u] = a]
      /\ callData = [callData EXCEPT ![u] = b]
  BY Same
<1> HIDE DEF a, b
<1>4. CASE UNCHANGED <<outgoingCall, callData>>
  BY <1>1, <1>2, <1>3, <1>4
<1>5. CASE OnEnd(u)
  <2>1. CASE Session(u).kind = "out"
    <3>1. /\ outgoingCall' = [outgoingCall EXCEPT ![u] = None]
          /\ callData' = [callData EXCEPT ![u] = b]
      BY <1>3, <1>5, <2>1 DEF OnEnd
    <3>2. QED
      BY <1>1, <2>1, <3>1
  <2>2. CASE Session(u).kind # "out"
    <3>1. /\ outgoingCall' = [outgoingCall EXCEPT ![u] = a]
          /\ callData' = [callData EXCEPT ![u] = None]
      BY <1>3, <1>5, <2>2 DEF OnEnd
    <3>2. QED
      BY <1>1, <1>2, <3>1
  <2>3. QED
    BY <2>1, <2>2
<1>6. QED
  BY <1>4, <1>5

\* The end of a call, said to the other user.
LEMMA SayKept ==
    ASSUME CallInv, NEW u \in Users, mounted[u], NEW m \in Signal, SayAndCleanup(u, m),
           OnEnd(u) \/ UNCHANGED <<outgoingCall, callData>>,
           UNCHANGED <<mounted, online, calls, noise>>
    PROVE  CallInv'
<1> DEFINE h == CleanupCall(Session(u))
<1>1. /\ Send(u, Session(u).peer, m) /\ PutSession(u, h) /\ missed' \in BOOLEAN
  BY DEF SayAndCleanup, Miss
<1>2. HookTrue(Session(u)) /\ Session(u).peer \in Users
  BY PageFacts
<1>3. wire' \in [Users -> [Users -> Seq(Signal)]]
  BY <1>1, <1>2, SendTypes DEF CallInv
<1>4. NetTypes'
  BY <1>1, <1>3 DEF CallInv, NetTypes
<1>5. HookTrue(h) /\ LetGo(h) /\ h.kind = Session(u).kind
  BY <1>2, CleanupTrue DEF Keeps
<1> HIDE DEF h
<1>6. PICK o \in Users \cup {None}, d \in Users \cup {None} :
              /\ outgoingCall' = [outgoingCall EXCEPT ![u] = o]
              /\ callData' = [callData EXCEPT ![u] = d]
              /\ o # None => d = None
              /\ Session(u).kind = "in" => o = None
  BY EndStores
<1>7. o \in Users \cup {None}
  BY <1>6
<1>8. QED
  BY <1>1, <1>4, <1>5, <1>6, <1>7, SessionStep

LEMMA HangUpKept ==
    ASSUME CallInv, NEW u \in Users, HangUpClick(u)
    PROVE  CallInv'
<1>1. mounted[u]
  BY DEF HangUpClick, Settled
<1>2. SayAndCleanup(u, "hangUp") /\ UNCHANGED <<mounted, online, calls, noise>>
  BY DEF HangUpClick
<1>3. OnEnd(u) \/ UNCHANGED <<outgoingCall, callData>>
  BY DEF HangUpClick
<1>4. "hangUp" \in Signal
  BY DEF Signal
<1>5. QED
  BY <1>1, <1>2, <1>3, <1>4, SayKept

LEMMA RejectKept ==
    ASSUME CallInv, NEW u \in Users, RejectClick(u)
    PROVE  CallInv'
<1>1. mounted[u]
  BY DEF RejectClick, Settled
<1>2. /\ SayAndCleanup(u, "reject") /\ OnEnd(u)
      /\ UNCHANGED <<mounted, online, calls, noise>>
  BY DEF RejectClick
<1>3. "reject" \in Signal
  BY DEF Signal
<1>4. QED
  BY <1>1, <1>2, <1>3, SayKept

LEMMA DismissKept ==
    ASSUME CallInv, NEW u \in Users, Dismiss(u)
    PROVE  CallInv'
<1>1. mounted[u]
  BY DEF Dismiss, Settled
<1>2. /\ SayAndCleanup(u, "hangUp") /\ OnEnd(u)
      /\ UNCHANGED <<mounted, online, calls, noise>>
  BY DEF Dismiss
<1>3. "hangUp" \in Signal
  BY DEF Signal
<1>4. QED
  BY <1>1, <1>2, <1>3, SayKept

LEMMA IdleTimerKept ==
    ASSUME CallInv, NEW u \in Users, IdleTimer(u)
    PROVE  CallInv'
<1> DEFINE S == Session(u)
           h == [S EXCEPT !.idleTimer = FALSE, !.status = "idle"]
<1>1. /\ PutSession(u, h)
      /\ UNCHANGED <<outgoingCall, callData, mounted, online, wire, missed, calls>>
  BY DEF IdleTimer
<1>2. mounted[u]
  BY DEF IdleTimer
<1>n. noise' \in 0..MaxNoise
  <2>1. noise' = noise \/ (noise < MaxNoise /\ noise' = noise + 1)
    BY DEF IdleTimer
  <2>2. noise \in 0..MaxNoise /\ MaxNoise \in Nat
    BY BoundAssumption DEF CallInv, NetTypes
  <2>3. QED
    BY <2>1, <2>2
<1>3. NetTypes'
  BY <1>1, <1>n DEF CallInv, NetTypes
<1>4. HookTrue(S) /\ S \in Hook
  BY <1>2, PageFacts DEF HookTrue
<1>5. h \in Hook
  BY <1>4 DEF Hook
<1>6. /\ h.kind = S.kind /\ h.pc = S.pc /\ h.job = S.job /\ h.camera = S.camera
      /\ h.answers = S.answers /\ h.making = S.making /\ h.peer = S.peer
      /\ h.added = S.added /\ h.pending = S.pending /\ h.heard = S.heard
  BY <1>4 DEF Hook
<1> HIDE DEF h
<1>7. Keeps(Session(u), h)
  BY <1>4, <1>5, <1>6 DEF Keeps, HookTrue, JobTrue, Counted, Fresh, HasRemote, LetGo, S
<1>8. QED
  BY <1>1, <1>2, <1>3, <1>7, SessionKeeps

LEMMA DeliverKept ==
    ASSUME CallInv, NEW u \in Users, NEW v \in Users, Deliver(u, v)
    PROVE  CallInv'
<1> DEFINE m == Head(wire[u][v])
           S == Session(v)
           h == HandleWebRTCSignal(S, m)
<1>1. wire[u][v] # <<>> /\ wire[u][v] \in Seq(Signal) /\ wire[u] \in [Users -> Seq(Signal)]
  BY DEF Deliver, CallInv, NetTypes
<1>2. m \in Signal /\ Tail(wire[u][v]) \in Seq(Signal)
  BY <1>1, HeadTailProperties
<1>3. /\ wire' = [wire EXCEPT ![u][v] = Tail(@)] /\ missed' \in BOOLEAN
      /\ UNCHANGED <<mounted, online, calls, noise>>
  BY DEF Deliver, Miss
<1>4. NetTypes'
  <2>1. wire' \in [Users -> [Users -> Seq(Signal)]]
    BY <1>1, <1>2, <1>3 DEF CallInv, NetTypes
  <2>2. QED
    BY <1>3, <2>1 DEF CallInv, NetTypes
<1>5. /\ IF m = "offer"
           THEN /\ outgoingCall' = [outgoingCall EXCEPT ![v] = None]
                /\ callData' = [callData EXCEPT ![v] = u]
           ELSE UNCHANGED <<outgoingCall, callData>>
      /\ IF mounted[v] /\ Session(v).peer = u THEN PutSession(v, h) ELSE UNCHANGED hooks
  BY DEF Deliver
<1>6. u # None /\ WantKind(None, u) = "in"
  BY DEF WantKind
<1>7. ASSUME mounted[v] PROVE HookTrue(S) /\ Keeps(S, h) /\ HookTrue(h) /\ h.kind = S.kind
  <2>1. HookTrue(S)
    BY <1>7, PageFacts
  <2> HIDE DEF S, m
  <2>2. Keeps(S, h)
    BY <1>2, <2>1, SignalTrue
  <2>3. QED
    BY <2>1, <2>2 DEF Keeps
<1> HIDE DEF m, h, S
<1>8. CASE (mounted[v] /\ Session(v).peer = u) /\ m = "offer"
  <2>1. /\ PutSession(v, h)
        /\ outgoingCall' = [outgoingCall EXCEPT ![v] = None]
        /\ callData' = [callData EXCEPT ![v] = u]
    BY <1>5, <1>8
  <2>2. HookTrue(h) /\ h.kind = Session(v).kind
    BY <1>7, <1>8 DEF S
  <2>3. QED
    BY <1>3, <1>4, <1>6, <1>8, <2>1, <2>2, SessionStep
<1>9. CASE (mounted[v] /\ Session(v).peer = u) /\ m # "offer"
  <2>1. PutSession(v, h) /\ UNCHANGED <<outgoingCall, callData>>
    BY <1>5, <1>9
  <2>2. Keeps(Session(v), h)
    BY <1>7, <1>9 DEF S
  <2>3. QED
    BY <1>3, <1>4, <1>9, <2>1, <2>2, SessionKeeps
<1>10. CASE ~(mounted[v] /\ Session(v).peer = u) /\ m = "offer"
  <2>1. /\ UNCHANGED hooks
        /\ outgoingCall' = [outgoingCall EXCEPT ![v] = None]
        /\ callData' = [callData EXCEPT ![v] = u]
    BY <1>5, <1>10
  <2>2. /\ PageTrue(hooks[v], mounted[v], outgoingCall[v], callData[v])
        /\ mounted[v] \in BOOLEAN
    BY PageFacts
  <2>3. PageTrue(hooks[v], mounted[v], None, u)
    BY <1>6, <2>2 DEF PageTrue
  <2>4. /\ hooks' = [hooks EXCEPT ![v] = hooks[v]]
        /\ mounted' = [mounted EXCEPT ![v] = mounted[v]]
    BY <1>3, <2>1, Same
  <2>5. CASE mounted[v] = TRUE
    <3>1. PageTrue(hooks[v], TRUE, None, u) /\ mounted' = [mounted EXCEPT ![v] = TRUE]
      BY <2>3, <2>4, <2>5
    <3>2. /\ hooks' = [hooks EXCEPT ![v] = hooks[v]]
          /\ outgoingCall' = [outgoingCall EXCEPT ![v] = None]
          /\ callData' = [callData EXCEPT ![v] = u]
      BY <2>1, <2>4
    <3>3. NetTypes' /\ u \in Users \cup {None} /\ None \in Users \cup {None}
      BY <1>4
    <3>4. QED
      BY <3>1, <3>2, <3>3, PageStep
  <2>6. CASE mounted[v] = FALSE
    <3>1. PageTrue(hooks[v], FALSE, None, u) /\ mounted' = [mounted EXCEPT ![v] = FALSE]
      BY <2>3, <2>4, <2>6
    <3>2. /\ hooks' = [hooks EXCEPT ![v] = hooks[v]]
          /\ outgoingCall' = [outgoingCall EXCEPT ![v] = None]
          /\ callData' = [callData EXCEPT ![v] = u]
      BY <2>1, <2>4
    <3>3. NetTypes' /\ u \in Users \cup {None} /\ None \in Users \cup {None}
      BY <1>4
    <3>4. QED
      BY <3>1, <3>2, <3>3, PageStep
  <2>7. QED
    BY <2>2, <2>5, <2>6
<1>11. CASE ~(mounted[v] /\ Session(v).peer = u) /\ m # "offer"
  BY <1>3, <1>4, <1>5, <1>11, StoresRest
<1>12. QED
  BY <1>8, <1>9, <1>10, <1>11

LEMMA DisconnectKept ==
    ASSUME CallInv, NEW u \in Users, Disconnect(u)
    PROVE  CallInv'
<1>1. /\ noise < MaxNoise /\ noise' = noise + 1 /\ online' = [online EXCEPT ![u] = FALSE]
      /\ wire' = [v \in Users |-> [wire[v] EXCEPT ![u] = <<>>]] /\ missed' \in BOOLEAN
      /\ UNCHANGED <<outgoingCall, callData, hooks, mounted, calls>>
  BY DEF Disconnect, Miss
<1>2. <<>> \in Seq(Signal)
  BY EmptySeq
<1>3. wire' \in [Users -> [Users -> Seq(Signal)]]
  BY <1>1, <1>2 DEF CallInv, NetTypes
<1>4. noise' \in 0..MaxNoise
  BY <1>1 DEF CallInv, NetTypes
<1>5. NetTypes'
  BY <1>1, <1>3, <1>4 DEF CallInv, NetTypes
<1>6. QED
  BY <1>1, <1>5, StoresRest

LEMMA ReconnectKept ==
    ASSUME CallInv, NEW u \in Users, Reconnect(u)
    PROVE  CallInv'
<1>1. NetTypes'
  BY DEF Reconnect, CallInv, NetTypes
<1>2. QED
  BY <1>1, StoresRest DEF Reconnect

LEMMA CallInvKept == CallInv /\ [Next]_vars => CallInv'
<1> SUFFICES ASSUME CallInv, [Next]_vars PROVE CallInv'
  OBVIOUS
<1>1. CASE UNCHANGED vars
  <2>1. NetTypes' /\ UNCHANGED <<outgoingCall, callData, hooks, mounted>>
    BY <1>1 DEF vars, CallInv, NetTypes
  <2>2. QED
    BY <2>1, StoresRest
<1>2. CASE Next
  <2>1. PICK u \in Users :
          \/ UserStep(u)
          \/ \E i \in DOMAIN hooks[u] : HookStep(u, i)
          \/ Render(u) \/ Dismiss(u) \/ IdleTimer(u)
          \/ \E v \in Users : Deliver(u, v)
          \/ Disconnect(u) \/ Reconnect(u)
    BY <1>2, Zenon DEF Next
  <2>2. ASSUME UserStep(u) PROVE CallInv'
    BY <2>2, CallClickKept, AnswerClickKept, HangUpKept, RejectKept, Zenon DEF UserStep
  <2>3. ASSUME NEW i \in DOMAIN hooks[u], HookStep(u, i) PROVE CallInv'
    BY <2>3, HookStepKept
  <2>4. ASSUME NEW v \in Users, Deliver(u, v) PROVE CallInv'
    BY <2>4, DeliverKept
  <2>5. QED
    BY <2>1, <2>2, <2>3, <2>4, RenderKept, DismissKept, IdleTimerKept, DisconnectKept,
       ReconnectKept, Zenon
<1>3. QED
  BY <1>1, <1>2

LEMMA CallInvHolds == Spec => []CallInv
  BY CallInit, CallInvKept, PTL DEF Spec

-----------------------------------------------------------------------------
\* The stores, the hooks and the wires keep the shapes their components give
\* them, and a page that shows a session has a hook for it.
THEOREM CallTypeCorrect == Spec => []TypeOK
<1>1. CallInv => TypeOK
  <2> SUFFICES ASSUME CallInv PROVE TypeOK
    OBVIOUS
  <2>1. \A u \in Users : mounted[u] => hooks[u] # <<>>
    BY PageFacts
  <2>2. QED
    BY <2>1 DEF CallInv, NetTypes, StoreTypes, TypeOK
<1>2. QED
  BY <1>1, CallInvHolds, PTL

\* Whatever order the description and the candidates come in, a connection
\* that has its remote description has been given every candidate its hook
\* heard, but for those the drain under way still holds (receiveOffer and
\* handleWebRTCSignal of useWebRTC).
THEOREM NoCandidateIsStrandedHolds == Spec => []NoCandidateIsStranded
<1>1. CallInv => NoCandidateIsStranded
  <2> SUFFICES ASSUME CallInv, NEW u \in Users, NEW i \in DOMAIN hooks[u],
                      HasRemote(hooks[u][i])
               PROVE  /\ hooks[u][i].added + hooks[u][i].pending = hooks[u][i].heard
                      /\ hooks[u][i].pending > 0
                            => hooks[u][i].job \in {"drainOffer", "drainAnswer"}
    BY DEF NoCandidateIsStranded
  <2>1. HookTrue(hooks[u][i])
    BY PageFacts
  <2>2. QED
    BY <2>1 DEF HookTrue, Counted
<1>2. QED
  BY <1>1, CallInvHolds, PTL

\* A call that came in and is shown no more has let go of the camera and of
\* every negotiated connection once its prompts are answered (cleanupCall and
\* answerCall of useWebRTC), for any number of prompts and calls.
THEOREM CalleeLetsGoHolds == Spec => []CalleeLetsGo
<1>1. CallInv => CalleeLetsGo
  <2> SUFFICES ASSUME CallInv, NEW u \in Users, NEW i \in DOMAIN hooks[u],
                      hooks[u][i].kind = "in", ~IsSession(u, i),
                      hooks[u][i].answers = 0, hooks[u][i].making = 0
               PROVE  hooks[u][i].pc \in {"none", "new"} /\ ~hooks[u][i].camera
    BY DEF CalleeLetsGo
  <2>1. /\ i \in 1..Len(hooks[u])
        /\ PageTrue(hooks[u], mounted[u], outgoingCall[u], callData[u])
    BY PageFacts
  <2>2. LetGo(hooks[u][i])
    BY <2>1 DEF PageTrue, IsSession
  <2>3. QED
    BY <2>2 DEF LetGo
<1>2. QED
  BY <1>1, CallInvHolds, PTL

-----------------------------------------------------------------------------
\* That nobody is left alone is not inductive.  While nothing has been missed,
\* every page that waits for another user is one this user's page still has
\* to do with, or one it has sent the end to.

Ends == {"hangUp", "reject"}

EndAfter(q, i) == \E j \in 1..Len(q) : j > i /\ q[j] \in Ends
HasOffer(q) == \E j \in 1..Len(q) : q[j] = "offer"

\* The page of v is for u, or has told u that it is not.
InTouch(v, u) == Want(v).peer = u \/ EndAfter(wire[v][u], 0)

\* A hook that no offer reaches any more and that has no remote description.
Over(h) == h.job # "asking" /\ ~HasRemote(h)

Joined(h) ==
    /\ h.kind = "in" /\ h.isCallActive /\ ~h.isIncomingCall => HasRemote(h)
    /\ h.job = "drainOffer" => h.kind = "in"

\* The session of a call that goes out is that of the call in the store.
OwnPeer(u) ==
    mounted[u] /\ Session(u).kind = "out" /\ outgoingCall[u] # None
        => Session(u).peer = outgoingCall[u]

OfferMeant(v, u) ==
    \A i \in 1..Len(wire[v][u]) :
        wire[v][u][i] = "offer" => Want(v).peer = u \/ EndAfter(wire[v][u], i)

CalleeHears(u, v) ==
    /\ outgoingCall[u] = None /\ callData[u] = v
    /\ ~(Settled(u) /\ Over(Session(u)))
    => InTouch(v, u)

CallerHears(u, v) ==
    /\ Settled(u) /\ Session(u).kind = "out" /\ Session(u).peer = v
    /\ Session(u).isCallActive
    => InTouch(v, u) \/ HasOffer(wire[u][v])

PagesJoined == \A u \in Users : (mounted[u] => Joined(Session(u))) /\ OwnPeer(u)

Touching ==
    \A u, v \in Users : OfferMeant(u, v) /\ CalleeHears(u, v) /\ CallerHears(u, v)

TalkInv == PagesJoined /\ (~missed => Touching)

\* What a step does to the session of a page that keeps its calls.
Follows(h, g) ==
    /\ g.kind = h.kind /\ g.peer = h.peer /\ Joined(g)
    /\ h.kind = "in" /\ Over(h) => Over(g)
    /\ h.kind = "out" /\ g.isCallActive => h.isCallActive

PageFollows(u) ==
    /\ outgoingCall'[u] = outgoingCall[u] /\ callData'[u] = callData[u]
    /\ mounted'[u] = mounted[u]
    /\ mounted[u] => Follows(Session(u), Session(u)')

\* What a step does to the signals from u to v if it sends no offer and takes
\* no end away.
WireFollows(u, v) ==
    /\ EndAfter(wire[u][v], 0) => EndAfter(wire'[u][v], 0)
    /\ HasOffer(wire[u][v]) => HasOffer(wire'[u][v])
    /\ \A i \in 1..Len(wire'[u][v]) :
          wire'[u][v][i] = "offer" =>
             \E k \in 1..Len(wire[u][v]) :
                /\ wire[u][v][k] = "offer"
                /\ EndAfter(wire[u][v], k) => EndAfter(wire'[u][v], i)

LEMMA WantStays ==
    ASSUME NEW u \in Users, outgoingCall'[u] = outgoingCall[u], callData'[u] = callData[u]
    PROVE  Want(u)' = Want(u)
BY DEF Want

LEMMA SettledStays ==
    ASSUME NEW u \in Users, PageFollows(u)
    PROVE  Settled(u)' = Settled(u)
<1>1. Want(u)' = Want(u)
  BY WantStays DEF PageFollows
<1>2. CASE mounted[u]
  <2>1. mounted'[u] /\ Session(u)'.kind = Session(u).kind /\ Session(u)'.peer = Session(u).peer
    BY <1>2 DEF PageFollows, Follows
  <2>2. Shown(u)' = Shown(u)
    BY <1>2, <2>1 DEF Shown
  <2>3. QED
    BY <1>1, <1>2, <2>1, <2>2 DEF Settled
<1>3. CASE ~mounted[u]
  BY <1>3 DEF Settled, PageFollows
<1>4. QED
  BY <1>2, <1>3

\* A page whose session goes on waits for no one it did not wait for.
LEMMA StillHears ==
    ASSUME NEW u \in Users, NEW v \in Users, PageFollows(u),
           CalleeHears(u, v), CallerHears(u, v), InTouch(v, u) => InTouch(v, u)',
           HasOffer(wire[u][v]) => HasOffer(wire[u][v])' \/ InTouch(v, u)'
    PROVE  CalleeHears(u, v)' /\ CallerHears(u, v)'
<1>1. Settled(u)' = Settled(u) /\ Want(u)' = Want(u)
  BY SettledStays, WantStays DEF PageFollows
<1>2. ASSUME outgoingCall'[u] = None, callData'[u] = v, ~(Settled(u)' /\ Over(Session(u)'))
      PROVE  InTouch(v, u)'
  <2>1. outgoingCall[u] = None /\ callData[u] = v /\ v # None
    BY <1>2 DEF PageFollows
  <2>2. Want(u).kind = "in"
    BY <2>1 DEF Want
  <2>3. ASSUME Settled(u), Over(Session(u)) PROVE Over(Session(u)')
    <3>1. mounted[u] /\ Session(u).kind = "in"
      BY <2>2, <2>3 DEF Settled, Shown
    <3>2. QED
      BY <2>3, <3>1 DEF PageFollows, Follows
  <2>4. QED
    BY <1>1, <1>2, <2>1, <2>3 DEF CalleeHears
<1>3. ASSUME Settled(u)', Session(u)'.kind = "out", Session(u)'.peer = v,
             Session(u)'.isCallActive
      PROVE  InTouch(v, u)' \/ HasOffer(wire[u][v])'
  <2>1. Settled(u) /\ mounted[u]
    BY <1>1, <1>3 DEF Settled
  <2>2. Session(u).kind = "out" /\ Session(u).peer = v /\ Session(u).isCallActive
    BY <1>3, <2>1 DEF PageFollows, Follows
  <2>3. QED
    BY <2>1, <2>2 DEF CallerHears
<1>4. QED
  BY <1>2, <1>3 DEF CalleeHears, CallerHears

LEMMA StillMeant ==
    ASSUME NEW v \in Users, NEW u \in Users, OfferMeant(v, u), WireFollows(v, u),
           Want(v).peer = u => Want(v)'.peer = u
    PROVE  OfferMeant(v, u)'
<1>1. SUFFICES ASSUME NEW i \in 1..Len(wire'[v][u]), wire'[v][u][i] = "offer"
               PROVE  Want(v)'.peer = u \/ EndAfter(wire'[v][u], i)
  BY DEF OfferMeant
<1>2. PICK k \in 1..Len(wire[v][u]) :
         /\ wire[v][u][k] = "offer"
         /\ EndAfter(wire[v][u], k) => EndAfter(wire'[v][u], i)
  BY <1>1 DEF WireFollows
<1>3. QED
  BY <1>2 DEF OfferMeant

LEMMA StillJoined ==
    ASSUME PagesJoined, \A w \in Users : PageFollows(w)
    PROVE  PagesJoined'
<1>1. SUFFICES ASSUME NEW w \in Users
               PROVE  (mounted'[w] => Joined(Session(w)')) /\ OwnPeer(w)'
  BY DEF PagesJoined
<1>2. PageFollows(w) /\ OwnPeer(w)
  BY DEF PagesJoined
<1>3. QED
  BY <1>2 DEF PageFollows, Follows, OwnPeer

\* The step of a hook, or of the wire, that is no one's end and no offer.
LEMMA TalkStep ==
    ASSUME TalkInv, \A w \in Users : PageFollows(w),
           ~missed' => ~missed /\ \A u, v \in Users : WireFollows(u, v)
    PROVE  TalkInv'
<1>1. PagesJoined'
  BY StillJoined DEF TalkInv
<1>2. SUFFICES ASSUME ~missed', NEW u \in Users, NEW v \in Users
               PROVE  OfferMeant(u, v)' /\ CalleeHears(u, v)' /\ CallerHears(u, v)'
  BY <1>1 DEF TalkInv, Touching
<1>3. /\ OfferMeant(u, v) /\ CalleeHears(u, v) /\ CallerHears(u, v)
      /\ WireFollows(u, v) /\ WireFollows(v, u) /\ PageFollows(u)
  BY <1>2 DEF TalkInv, Touching
<1>4. Want(u)' = Want(u) /\ Want(v)' = Want(v)
  BY WantStays DEF PageFollows
<1>5. OfferMeant(u, v)'
  BY <1>3, <1>4, StillMeant
<1>6. InTouch(v, u) => InTouch(v, u)'
  BY <1>3, <1>4 DEF InTouch, WireFollows
<1>7. HasOffer(wire[u][v]) => HasOffer(wire[u][v])'
  BY <1>3 DEF WireFollows
<1>8. QED
  BY <1>3, <1>5, <1>6, <1>7, StillHears

\* What a signal more or a signal fewer changes on the wire.
LEMMA AppendReads ==
    ASSUME NEW q \in Seq(Signal), NEW m \in Signal, NEW r, r = Append(q, m)
    PROVE  /\ \A i \in Nat : EndAfter(q, i) => EndAfter(r, i)
           /\ HasOffer(q) => HasOffer(r)
           /\ m \in Ends => \A i \in 0..Len(q) : EndAfter(r, i)
           /\ m = "offer" => HasOffer(r)
           /\ \A i \in 1..Len(r) : r[i] = "offer" =>
                 (i \in 1..Len(q) /\ q[i] = "offer") \/ m = "offer"
<1>1. /\ Len(q) \in Nat /\ Len(r) = Len(q) + 1 /\ r[Len(q) + 1] = m
      /\ \A j \in 1..Len(q) : r[j] = q[j] /\ j \in 1..Len(r)
      /\ \A j \in 1..Len(r) : j \in 1..Len(q) \/ j = Len(q) + 1
      /\ Len(q) + 1 \in 1..Len(r)
  BY AppendProperties, LenProperties
<1>2. ASSUME NEW i \in Nat, EndAfter(q, i) PROVE EndAfter(r, i)
  <2>1. PICK j \in 1..Len(q) : j > i /\ q[j] \in Ends
    BY <1>2 DEF EndAfter
  <2>2. QED
    BY <1>1, <2>1 DEF EndAfter
<1>3. HasOffer(q) => HasOffer(r)
  BY <1>1 DEF HasOffer
<1>4. ASSUME m \in Ends, NEW i \in 0..Len(q) PROVE EndAfter(r, i)
  <2>1. Len(q) + 1 > i
    BY <1>1
  <2>2. QED
    BY <1>1, <1>4, <2>1 DEF EndAfter
<1>5. m = "offer" => HasOffer(r)
  BY <1>1 DEF HasOffer
<1>6. ASSUME NEW i \in 1..Len(r), r[i] = "offer"
      PROVE  (i \in 1..Len(q) /\ q[i] = "offer") \/ m = "offer"
  BY <1>1, <1>6
<1>7. QED
  BY <1>2, <1>3, <1>4, <1>5, <1>6

LEMMA TailReads ==
    ASSUME NEW q \in Seq(Signal), q # <<>>, NEW r, r = Tail(q)
    PROVE  /\ \A i \in Nat : EndAfter(q, i + 1) => EndAfter(r, i)
           /\ Head(q) \notin Ends /\ EndAfter(q, 0) => EndAfter(r, 0)
           /\ Head(q) # "offer" /\ HasOffer(q) => HasOffer(r)
           /\ Head(q) = q[1] /\ 1 \in 1..Len(q)
           /\ \A i \in 1..Len(r) : i + 1 \in 1..Len(q) /\ r[i] = q[i + 1]
<1>1. /\ Len(q) \in Nat \ {0} /\ Head(q) = q[1] /\ Len(r) = Len(q) - 1
      /\ \A i \in 1..Len(r) : r[i] = q[i + 1]
  BY EmptySeq, HeadTailProperties
<1>2. ASSUME NEW i \in Nat, EndAfter(q, i + 1) PROVE EndAfter(r, i)
  <2>1. PICK j \in 1..Len(q) : j > i + 1 /\ q[j] \in Ends
    BY <1>2 DEF EndAfter
  <2>2. j - 1 \in 1..Len(r) /\ j - 1 > i /\ (j - 1) + 1 = j
    BY <1>1, <2>1
  <2>3. r[j - 1] \in Ends
    BY <1>1, <2>1, <2>2
  <2>4. QED
    BY <2>2, <2>3 DEF EndAfter
<1>3. ASSUME Head(q) \notin Ends, EndAfter(q, 0) PROVE EndAfter(r, 0)
  <2>1. PICK j \in 1..Len(q) : j > 0 /\ q[j] \in Ends
    BY <1>3 DEF EndAfter
  <2>2. j - 1 \in 1..Len(r) /\ j - 1 > 0 /\ (j - 1) + 1 = j
    <3>1. j # 1
      BY <1>1, <1>3, <2>1
    <3>2. QED
      BY <1>1, <2>1, <3>1
  <2>3. r[j - 1] \in Ends
    BY <1>1, <2>1, <2>2
  <2>4. QED
    BY <2>2, <2>3 DEF EndAfter
<1>4. ASSUME Head(q) # "offer", HasOffer(q) PROVE HasOffer(r)
  <2>1. PICK j \in 1..Len(q) : q[j] = "offer"
    BY <1>4 DEF HasOffer
  <2>2. j - 1 \in 1..Len(r) /\ (j - 1) + 1 = j
    <3>1. j # 1
      BY <1>1, <1>4, <2>1
    <3>2. QED
      BY <1>1, <2>1, <3>1
  <2>3. r[j - 1] = "offer"
    BY <1>1, <2>1, <2>2
  <2>4. QED
    BY <2>2, <2>3 DEF HasOffer
<1>5. 1 \in 1..Len(q) /\ \A i \in 1..Len(r) : i + 1 \in 1..Len(q)
  BY <1>1
<1>6. QED
  BY <1>1, <1>2, <1>3, <1>4, <1>5

LEMMA WireStays ==
    ASSUME NEW u, NEW v, wire'[u][v] = wire[u][v]
    PROVE  WireFollows(u, v)
BY DEF WireFollows

\* Only the signals from u to v change.
LEMMA SendReads ==
    ASSUME NetTypes, NEW u \in Users, NEW v \in Users, NEW m \in Signal, Send(u, v, m)
    PROVE  /\ \A x, y \in Users : x # u \/ y # v => wire'[x][y] = wire[x][y]
           /\ Lost(u, v) => wire' = wire
           /\ ~Lost(u, v) => wire'[u][v] = Append(wire[u][v], m)
           /\ wire[u][v] \in Seq(Signal)
<1>1. wire \in [Users -> [Users -> Seq(Signal)]] /\ wire[u] \in [Users -> Seq(Signal)]
  BY DEF NetTypes
<1>2. CASE Lost(u, v)
  BY <1>1, <1>2 DEF Send, Lost
<1>3. CASE ~Lost(u, v)
  <2>1. wire' = [wire EXCEPT ![u][v] = Append(@, m)]
    BY <1>3 DEF Send, Lost
  <2>2. wire'[u][v] = Append(wire[u][v], m) /\ wire[u][v] \in Seq(Signal)
    BY <1>1, <2>1
  <2>3. ASSUME NEW x \in Users, NEW y \in Users, x # u \/ y # v
        PROVE  wire'[x][y] = wire[x][y]
    BY <1>1, <2>1, <2>3
  <2>4. QED
    BY <1>3, <2>2, <2>3
<1>4. QED
  BY <1>2, <1>3

LEMMA SendFollows ==
    ASSUME NetTypes, NEW u \in Users, NEW v \in Users, NEW m \in {"answer", "candidate"},
           Send(u, v, m)
    PROVE  \A x, y \in Users : WireFollows(x, y)
<1>1. m \in Signal /\ m # "offer"
  BY DEF Signal
<1>2. SUFFICES ASSUME NEW x \in Users, NEW y \in Users PROVE WireFollows(x, y)
  OBVIOUS
<1>3. CASE wire'[x][y] = wire[x][y]
  BY <1>3, WireStays
<1>4. CASE wire'[x][y] # wire[x][y]
  <2>1. x = u /\ y = v /\ wire'[u][v] = Append(wire[u][v], m) /\ wire[u][v] \in Seq(Signal)
    BY <1>1, <1>4, SendReads
  <2>2. /\ \A i \in Nat : EndAfter(wire[u][v], i) => EndAfter(wire'[u][v], i)
        /\ HasOffer(wire[u][v]) => HasOffer(wire'[u][v])
        /\ \A i \in 1..Len(wire'[u][v]) : wire'[u][v][i] = "offer" =>
              i \in 1..Len(wire[u][v]) /\ wire[u][v][i] = "offer"
    BY <1>1, <2>1, AppendReads
  <2>3. \A i \in 1..Len(wire'[u][v]) : i \in Nat
    <3>1. SUFFICES ASSUME NEW i \in 1..Len(wire'[u][v]) PROVE i \in Nat
      OBVIOUS
    <3>2. Len(wire'[u][v]) \in Nat
      BY <1>1, <2>1, AppendProperties, LenProperties
    <3>3. QED
      BY <3>2
  <2>4. QED
    BY <2>1, <2>2, <2>3 DEF WireFollows
<1>5. QED
  BY <1>3, <1>4

\* The session of a page after one of its hooks has gone on.
LEMMA SessionReads ==
    ASSUME CallInv, NEW u \in Users, NEW i \in 1..Len(hooks[u]), mounted[u], i = Len(hooks[u]),
           NEW h, HookTrue(h), hooks' = [hooks EXCEPT ![u] = [@ EXCEPT ![i] = h]]
    PROVE  Session(u)' = h /\ \A w \in Users : w # u => Session(w)' = Session(w)
<1>1. hooks \in [Users -> Seq(Hook)] /\ hooks[u] \in Seq(Hook) /\ h \in Hook
  BY DEF CallInv, StoreTypes, HookTrue
<1> DEFINE t == [hooks[u] EXCEPT ![i] = h]
<1>2. Len(t) = Len(hooks[u]) /\ t[i] = h
  BY <1>1, ExceptSeq
<1>3. hooks'[u] = t /\ \A w \in Users : w # u => hooks'[w] = hooks[w]
  BY <1>1
<1> HIDE DEF t
<1>4. Session(u)' = h
  BY <1>2, <1>3 DEF Session, Last
<1>5. QED
  BY <1>3, <1>4 DEF Session

LEMMA PutReads ==
    ASSUME CallInv, NEW u \in Users, NEW i \in DOMAIN hooks[u],
           NEW h, HookTrue(h), Put(u, i, h)
    PROVE  /\ IsSession(u, i) => Session(u)' = h
           /\ mounted[u] /\ ~IsSession(u, i) => Session(u)' = Session(u)
           /\ \A w \in Users : w # u => Session(w)' = Session(w)
<1>1. /\ hooks \in [Users -> Seq(Hook)] /\ hooks[u] \in Seq(Hook) /\ h \in Hook
      /\ i \in 1..Len(hooks[u]) /\ Len(hooks[u]) \in Nat
  BY PageFacts DEF CallInv, StoreTypes, HookTrue
<1>2. CASE IsSession(u, i)
  <2>1. hooks' = [hooks EXCEPT ![u] = [@ EXCEPT ![i] = h]]
    BY <1>2 DEF Put
  <2>2. QED
    BY <1>1, <1>2, <2>1, SessionReads DEF IsSession
<1>3. CASE ~IsSession(u, i)
  <2>1. \A w \in Users : w # u => hooks'[w] = hooks[w]
    BY <1>1 DEF Put
  <2>2. ASSUME mounted[u] PROVE Session(u)' = Session(u)
    <3>1. i # Len(hooks[u]) /\ Len(hooks[u]) \in 1..Len(hooks[u])
      BY <1>3, <2>2, PageFacts DEF IsSession
    <3>2. CASE Inert(h)
      <4>1. hooks'[u] = RemoveAt(hooks[u], i)
        BY <1>1, <1>3, <3>2 DEF Put
      <4>2. /\ Len(RemoveAt(hooks[u], i)) = Len(hooks[u]) - 1
            /\ \A j \in 1..(Len(hooks[u]) - 1) :
                  RemoveAt(hooks[u], i)[j] = IF j < i THEN hooks[u][j] ELSE hooks[u][j + 1]
        BY <1>1, RemoveReads
      <4>3. /\ Len(hooks[u]) - 1 \in 1..(Len(hooks[u]) - 1) /\ ~(Len(hooks[u]) - 1 < i)
            /\ (Len(hooks[u]) - 1) + 1 = Len(hooks[u])
        BY <1>1, <3>1
      <4>4. Len(hooks'[u]) = Len(hooks[u]) - 1
            /\ hooks'[u][Len(hooks[u]) - 1] = hooks[u][Len(hooks[u])]
        BY <4>1, <4>2, <4>3
      <4>5. QED
        BY <4>4 DEF Session, Last
    <3>3. CASE ~Inert(h)
      <4>1. hooks'[u] = [hooks[u] EXCEPT ![i] = Detached(h)]
        BY <1>1, <1>3, <3>3 DEF Put
      <4>2. Detached(h) \in Hook
        BY DetachedTrue DEF HookTrue
      <4>3. Len(hooks'[u]) = Len(hooks[u]) /\ hooks'[u][Len(hooks[u])] = hooks[u][Len(hooks[u])]
        BY <1>1, <3>1, <4>1, <4>2, ExceptSeq
      <4>4. QED
        BY <4>3 DEF Session, Last
    <3>4. QED
      BY <3>2, <3>3
  <2>3. QED
    BY <1>3, <2>1, <2>2 DEF Session
<1>4. QED
  BY <1>2, <1>3

LEMMA FollowsSelf ==
    ASSUME NEW h, Joined(h)
    PROVE  Follows(h, h)
BY DEF Follows

LEMMA PageStays ==
    ASSUME PagesJoined, NEW w \in Users, outgoingCall'[w] = outgoingCall[w],
           callData'[w] = callData[w], mounted'[w] = mounted[w],
           mounted[w] => Session(w)' = Session(w)
    PROVE  PageFollows(w)
BY FollowsSelf DEF PageFollows, PagesJoined

LEMMA PutFollows ==
    ASSUME CallInv, PagesJoined, NEW u \in Users, NEW i \in DOMAIN hooks[u],
           NEW h, HookTrue(h), Put(u, i, h), UNCHANGED <<outgoingCall, callData, mounted>>,
           Joined(hooks[u][i]) => Follows(hooks[u][i], h)
    PROVE  \A w \in Users : PageFollows(w)
<1>1. /\ IsSession(u, i) => Session(u)' = h
      /\ mounted[u] /\ ~IsSession(u, i) => Session(u)' = Session(u)
      /\ \A w \in Users : w # u => Session(w)' = Session(w)
  BY PutReads
<1>2. SUFFICES ASSUME NEW w \in Users PROVE PageFollows(w)
  OBVIOUS
<1>3. CASE w = u /\ IsSession(u, i)
  <2>1. mounted[u] /\ Session(u) = hooks[u][i] /\ Joined(Session(u))
    BY <1>3, PageFacts DEF IsSession, PagesJoined
  <2>2. QED
    BY <1>1, <1>3, <2>1 DEF PageFollows
<1>4. CASE ~(w = u /\ IsSession(u, i))
  BY <1>1, <1>4, PageStays
<1>5. QED
  BY <1>3, <1>4

LEMMA PutSessionFollows ==
    ASSUME CallInv, PagesJoined, NEW u \in Users, mounted[u],
           NEW h, HookTrue(h), PutSession(u, h),
           UNCHANGED <<outgoingCall, callData, mounted>>,
           Joined(Session(u)) => Follows(Session(u), h)
    PROVE  \A w \in Users : PageFollows(w)
<1>1. Len(hooks[u]) \in 1..Len(hooks[u])
  BY PageFacts
<1>2. hooks' = [hooks EXCEPT ![u] = [@ EXCEPT ![Len(hooks[u])] = h]]
  BY DEF PutSession
<1>3. Session(u)' = h /\ \A w \in Users : w # u => Session(w)' = Session(w)
  BY <1>1, <1>2, SessionReads
<1>4. SUFFICES ASSUME NEW w \in Users PROVE PageFollows(w)
  OBVIOUS
<1>5. CASE w = u
  BY <1>3, <1>5 DEF PageFollows, PagesJoined
<1>6. CASE w # u
  BY <1>3, <1>6, PageStays
<1>7. QED
  BY <1>5, <1>6

\* What the functions of the hook do to its call.
LEMMA CleanupFollows ==
    ASSUME NEW h, HookTrue(h), Joined(h)
    PROVE  /\ Follows(h, CleanupCall(h)) /\ Over(CleanupCall(h))
           /\ ~CleanupCall(h).isCallActive /\ HookTrue(CleanupCall(h))
<1> DEFINE k == StopMediaTracks(h)
           g == CleanupCall(h)
           j == IF h.job \in {"asking", "answered"} THEN "none"
                ELSE IF h.job = "offering" THEN "broken" ELSE h.job
<1>1. h \in Hook /\ HookTrue(g)
  BY CleanupTrue DEF HookTrue, Keeps
<1>2. k \in Hook /\ k.kind = h.kind /\ k.peer = h.peer /\ k.job = h.job
  BY <1>1 DEF Hook, StopMediaTracks
<1>3. /\ g.kind = k.kind /\ g.peer = k.peer /\ g.pc = "none"
      /\ g.isCallActive = FALSE /\ g.isIncomingCall = FALSE
      /\ g.job = j
  BY <1>2 DEF CleanupCall, Hook
<1>4. g.job # "asking" /\ (g.job = "drainOffer" => h.job = "drainOffer")
  BY <1>3
<1> HIDE DEF g, k, j
<1>5. QED
  BY <1>1, <1>2, <1>3, <1>4 DEF Follows, Over, Joined, HasRemote, g

LEMMA FollowsTwice ==
    ASSUME NEW h, NEW g, NEW k, Follows(h, g), Follows(g, k)
    PROVE  Follows(h, k)
BY DEF Follows

\* A field that the call does not depend on.
LEMMA SameCall ==
    ASSUME NEW h, NEW g, Joined(h), g.kind = h.kind, g.peer = h.peer, g.job = h.job,
           HasRemote(g) = HasRemote(h), g.isCallActive = h.isCallActive,
           g.isIncomingCall = h.isIncomingCall
    PROVE  Follows(h, g)
BY DEF Follows, Joined, Over

LEMMA SignalFollows ==
    ASSUME NEW h, HookTrue(h), Joined(h), NEW m \in Signal
    PROVE  /\ Follows(h, HandleWebRTCSignal(h, m))
           /\ m \in Ends => /\ Over(HandleWebRTCSignal(h, m))
                            /\ ~HandleWebRTCSignal(h, m).isCallActive
<1> DEFINE o == CreatePeerConnection(h)
           g == HandleWebRTCSignal(h, m)
<1>1. HookTrue(o) /\ o.job = h.job /\ o.pc = IF h.pc = "none" THEN "new" ELSE h.pc
  BY CreateTrue DEF Keeps
<1>2. /\ o.kind = h.kind /\ o.peer = h.peer
      /\ o.isCallActive = h.isCallActive /\ o.isIncomingCall = h.isIncomingCall
  BY DEF CreatePeerConnection, HookTrue, Hook
<1>3. Follows(h, o) /\ Joined(o)
  <2>1. HasRemote(o) = HasRemote(h)
    BY <1>1 DEF HasRemote
  <2> HIDE DEF o
  <2>2. QED
    BY <1>1, <1>2, <2>1, SameCall DEF Follows
<1>4. HookTrue(g)
  BY SignalTrue DEF Keeps
<1>5. o \in Hook
  BY <1>1 DEF HookTrue
<1> HIDE DEF o
<1>6. CASE m \in Ends
  <2>1. g = CleanupCall(o)
    BY <1>6 DEF HandleWebRTCSignal, o, Ends
  <2>2. QED
    BY <1>1, <1>3, <2>1, CleanupFollows, FollowsTwice
<1>7. CASE m = "offer"
  BY <1>3, <1>7 DEF HandleWebRTCSignal, o, Ends
<1>8. CASE m = "answer" /\ o.pc = "offered" /\ o.job = "none"
  <2>1. g = [o EXCEPT !.job = "answered"]
    BY <1>8 DEF HandleWebRTCSignal, o
  <2> HIDE DEF g
  <2>2. /\ g.kind = o.kind /\ g.peer = o.peer /\ g.job = "answered" /\ g.pc = o.pc
        /\ g.isCallActive = o.isCallActive /\ g.isIncomingCall = o.isIncomingCall
    BY <1>5, <2>1 DEF Hook
  <2>3. Follows(o, g)
    BY <1>3, <2>2 DEF Follows, Joined, Over, HasRemote
  <2>4. QED
    BY <1>3, <1>8, <2>3, FollowsTwice DEF g, Ends
<1>9. CASE m = "answer" /\ ~(o.pc = "offered" /\ o.job = "none")
  BY <1>3, <1>9 DEF HandleWebRTCSignal, o, Ends
<1>10. CASE m = "candidate"
  <2>1. \/ g = [o EXCEPT !.heard = @ + 1, !.added = @ + 1]
        \/ g = [o EXCEPT !.heard = @ + 1, !.pending = @ + 1]
    BY <1>10 DEF HandleWebRTCSignal, o
  <2> HIDE DEF g
  <2>2. /\ g.kind = o.kind /\ g.peer = o.peer /\ g.job = o.job /\ g.pc = o.pc
        /\ g.isCallActive = o.isCallActive /\ g.isIncomingCall = o.isIncomingCall
    BY ZenonT(60), <1>5, <2>1 DEF Hook
  <2>3. Follows(o, g)
    BY <1>3, <2>2, SameCall DEF HasRemote
  <2>4. QED
    BY <1>3, <1>10, <2>3, FollowsTwice DEF g, Ends
<1>11. QED
  BY <1>6, <1>7, <1>8, <1>9, <1>10 DEF Signal, Ends

\* A hook goes on and nothing of importance is sent.
LEMMA PutTalks ==
    ASSUME CallInv, TalkInv, NEW u \in Users, NEW i \in DOMAIN hooks[u],
           NEW h, HookTrue(h), Put(u, i, h), UNCHANGED <<outgoingCall, callData, mounted>>,
           Joined(hooks[u][i]) => Follows(hooks[u][i], h),
           missed => missed', \A x, y \in Users : WireFollows(x, y)
    PROVE  TalkInv'
<1>1. \A w \in Users : PageFollows(w)
  BY PutFollows DEF TalkInv
<1>2. QED
  BY <1>1, TalkStep

LEMMA WireUnchanged ==
    ASSUME UNCHANGED wire
    PROVE  \A x, y \in Users : WireFollows(x, y)
BY WireStays

\* What the functions that go on after an await do to the call.
LEMMA MediaFollows ==
    ASSUME NEW h, HookTrue(h), h.job = "media"
    PROVE  /\ Joined(h) => Follows(h, [CreatePeerConnection(GotMedia(h)) EXCEPT !.job = "offering"])
           /\ Joined(h) => Follows(h, [CleanupCall(h) EXCEPT !.job = "none"])
<1> DEFINE k == GotMedia(h)
           o == CreatePeerConnection(k)
           g == [o EXCEPT !.job = "offering"]
           c == CleanupCall(h)
           f == [c EXCEPT !.job = "none"]
<1>1. h \in Hook /\ h.kind = "out" /\ HookTrue(c)
  BY CleanupTrue DEF HookTrue, JobTrue, Keeps
<1>2. k \in Hook /\ k.kind = h.kind /\ k.peer = h.peer /\ k.isCallActive = h.isCallActive
  <2>1. (h.leaked \/ h.camera) \in BOOLEAN
    BY <1>1, HookFields
  <2>2. QED
    BY <1>1, <2>1 DEF Hook, GotMedia
<1> HIDE DEF k
<1>3. o \in Hook /\ o.kind = h.kind /\ o.peer = h.peer /\ o.isCallActive = h.isCallActive
  BY <1>2 DEF Hook, CreatePeerConnection
<1> HIDE DEF o
<1>4. g.kind = "out" /\ g.peer = h.peer /\ g.isCallActive = h.isCallActive /\ g.job = "offering"
  BY <1>1, <1>3 DEF Hook
<1> HIDE DEF g
<1>5. Joined(h) => Follows(h, g)
  BY <1>1, <1>4 DEF Follows, Joined
<1>6. ASSUME Joined(h) PROVE Follows(h, f)
  <2>1. Follows(h, c) /\ ~c.isCallActive /\ c \in Hook
    BY <1>1, <1>6, CleanupFollows DEF HookTrue
  <2> HIDE DEF c
  <2>2. f.kind = c.kind /\ f.peer = c.peer /\ f.isCallActive = c.isCallActive /\ f.job = "none"
    BY <2>1 DEF Hook
  <2> HIDE DEF f
  <2>3. QED
    BY <1>1, <2>1, <2>2 DEF Follows, Joined
<1>7. QED
  BY <1>5, <1>6 DEF g, f, o, k, c

LEMMA FailureFollows ==
    ASSUME NEW h, HookTrue(h), Joined(h)
    PROVE  Follows(h, [CleanupCall(h) EXCEPT !.job = "none"])
<1> DEFINE c == CleanupCall(h)
           f == [c EXCEPT !.job = "none"]
<1>1. Follows(h, c) /\ ~c.isCallActive /\ c \in Hook /\ Over(c) /\ Joined(c)
  BY CleanupFollows DEF HookTrue, Follows
<1> HIDE DEF c
<1>2. /\ f.kind = c.kind /\ f.peer = c.peer /\ f.isCallActive = c.isCallActive
      /\ f.job = "none" /\ f.pc = c.pc
  BY <1>1 DEF Hook
<1> HIDE DEF f
<1>3. Follows(c, f)
  BY <1>1, <1>2 DEF Follows, Joined, Over, HasRemote
<1>4. QED
  BY <1>1, <1>3, FollowsTwice DEF f, c

LEMMA RemoteFollows ==
    ASSUME NEW h, HookTrue(h), Joined(h)
    PROVE  /\ h.job = "asking" => Follows(h, [h EXCEPT !.pc = "asked", !.job = "drainOffer"])
           /\ h.job = "answered" => Follows(h, [h EXCEPT !.pc = "stable", !.job = "drainAnswer"])
<1>1. h \in Hook /\ JobTrue(h)
  BY DEF HookTrue
<1>2. ASSUME h.job = "asking"
      PROVE  Follows(h, [h EXCEPT !.pc = "asked", !.job = "drainOffer"])
  <2> DEFINE g == [h EXCEPT !.pc = "asked", !.job = "drainOffer"]
  <2>1. /\ g.kind = h.kind /\ g.peer = h.peer /\ g.isCallActive = h.isCallActive
        /\ g.pc = "asked"
    BY <1>1 DEF Hook
  <2> HIDE DEF g
  <2>2. h.kind = "in" /\ ~Over(h)
    BY <1>1, <1>2 DEF JobTrue, Over
  <2>3. Follows(h, g)
    BY <2>1, <2>2 DEF Follows, Joined, HasRemote
  <2>4. QED
    BY <2>3 DEF g
<1>3. ASSUME h.job = "answered"
      PROVE  Follows(h, [h EXCEPT !.pc = "stable", !.job = "drainAnswer"])
  <2> DEFINE g == [h EXCEPT !.pc = "stable", !.job = "drainAnswer"]
  <2>1. /\ g.kind = h.kind /\ g.peer = h.peer /\ g.isCallActive = h.isCallActive
        /\ g.job = "drainAnswer" /\ g.pc = "stable"
    BY <1>1 DEF Hook
  <2> HIDE DEF g
  <2>2. h.kind = "out"
    BY <1>1, <1>3 DEF JobTrue
  <2>3. Follows(h, g)
    BY <2>1, <2>2 DEF Follows, Joined
  <2>4. QED
    BY <2>3 DEF g
<1>4. QED
  BY <1>2, <1>3

LEMMA DrainFollows ==
    ASSUME NEW h, HookTrue(h), Joined(h)
    PROVE  /\ h.job = "drainOffer" =>
                 Follows(h, [Drain(h) EXCEPT !.isIncomingCall = TRUE, !.isCallActive = TRUE,
                                             !.status = "ringing"])
           /\ h.job = "drainAnswer" => Follows(h, [Drain(h) EXCEPT !.status = "connected"])
<1> DEFINE k == Drain(h)
<1>1. h \in Hook /\ h.pending \in Nat /\ h.added \in Nat
  BY HookFields DEF HookTrue
<1>2. /\ k \in Hook /\ k.kind = h.kind /\ k.peer = h.peer /\ k.pc = h.pc /\ k.job = "none"
      /\ k.isCallActive = h.isCallActive /\ k.isIncomingCall = h.isIncomingCall
  <2>1. PICK a \in Nat : a = IF HasRemote(h) THEN h.added + h.pending ELSE h.added
    BY <1>1
  <2>2. k = [h EXCEPT !.added = a, !.pending = 0, !.job = "none"]
    BY <1>1, <2>1 DEF Drain
  <2> HIDE DEF k
  <2>3. QED
    BY <1>1, <2>2 DEF Hook
<1> HIDE DEF k
<1>3. ASSUME h.job = "drainOffer"
      PROVE  Follows(h, [k EXCEPT !.isIncomingCall = TRUE, !.isCallActive = TRUE,
                                  !.status = "ringing"])
  <2> DEFINE g == [k EXCEPT !.isIncomingCall = TRUE, !.isCallActive = TRUE, !.status = "ringing"]
  <2>1. /\ g.kind = k.kind /\ g.peer = k.peer /\ g.pc = k.pc /\ g.job = "none"
        /\ g.isIncomingCall = TRUE
    BY <1>2 DEF Hook
  <2> HIDE DEF g
  <2>2. h.kind = "in"
    BY <1>3 DEF Joined
  <2>3. Follows(h, g)
    BY <1>2, <2>1, <2>2 DEF Follows, Joined, Over, HasRemote
  <2>4. QED
    BY <2>3 DEF g
<1>4. ASSUME h.job = "drainAnswer"
      PROVE  Follows(h, [k EXCEPT !.status = "connected"])
  <2> DEFINE g == [k EXCEPT !.status = "connected"]
  <2>1. /\ g.kind = k.kind /\ g.peer = k.peer /\ g.pc = k.pc /\ g.job = "none"
        /\ g.isCallActive = k.isCallActive /\ g.isIncomingCall = k.isIncomingCall
    BY <1>2 DEF Hook
  <2> HIDE DEF g
  <2>2. Follows(h, g)
    BY <1>2, <1>4, <2>1 DEF Follows, Joined, Over, HasRemote
  <2>3. QED
    BY <2>2 DEF g
<1>5. QED
  BY <1>3, <1>4 DEF k

LEMMA PromptFollows ==
    ASSUME NEW h, HookTrue(h), Joined(h), h.answers > 0,
           NEW k, k = [h EXCEPT !.answers = @ - 1]
    PROVE  /\ Follows(h, CleanupCall(k)) /\ Follows(h, CleanupCall(GotMedia(k)))
           /\ Follows(h, [GotMedia(k) EXCEPT !.making = @ + 1])
<1>1. h \in Hook /\ h.answers \in 0..MaxAnswers
  BY HookFields DEF HookTrue
<1>2. PICK n \in 0..MaxAnswers : n = h.answers - 1
  BY <1>1
<1>3. k = [h EXCEPT !.answers = n]
  BY <1>1, <1>2
<1>4. HookTrue(k)
  BY <1>2, <1>3, FewerKeeps
<1>5. k \in Hook
  BY <1>4 DEF HookTrue
<1>6. Follows(h, k)
  <2>1. /\ k.kind = h.kind /\ k.peer = h.peer /\ k.job = h.job /\ k.pc = h.pc
        /\ k.isCallActive = h.isCallActive /\ k.isIncomingCall = h.isIncomingCall
    BY <1>1, <1>3 DEF Hook
  <2>2. QED
    BY <2>1, SameCall DEF HasRemote
<1> DEFINE c == GotMedia(k)
<1>7. c \in Hook /\ HookTrue(c)
  <2>1. (k.leaked \/ k.camera) \in BOOLEAN
    BY <1>5, HookFields
  <2>2. c \in Hook
    BY ZenonT(60), <1>5, <2>1 DEF Hook, GotMedia
  <2>3. /\ c.kind = k.kind /\ c.pc = k.pc /\ c.job = k.job
        /\ c.answers = k.answers /\ c.making = k.making
        /\ c.added = k.added /\ c.pending = k.pending /\ c.heard = k.heard
    BY <1>5 DEF Hook, GotMedia
  <2> HIDE DEF c
  <2>4. QED
    BY <1>4, <2>2, <2>3 DEF HookTrue, JobTrue, Counted, Fresh, HasRemote
<1>8. Follows(k, c)
  <2>1. /\ c.kind = k.kind /\ c.peer = k.peer /\ c.job = k.job /\ c.pc = k.pc
        /\ c.isCallActive = k.isCallActive /\ c.isIncomingCall = k.isIncomingCall
    BY <1>5 DEF Hook, GotMedia
  <2> HIDE DEF c
  <2>2. QED
    BY ZenonT(60), <1>6, <2>1, SameCall DEF HasRemote, Follows
<1> HIDE DEF c
<1> DEFINE g == [c EXCEPT !.making = @ + 1]
<1>9. Follows(c, g)
  <2>1. /\ g.kind = c.kind /\ g.peer = c.peer /\ g.job = c.job /\ g.pc = c.pc
        /\ g.isCallActive = c.isCallActive /\ g.isIncomingCall = c.isIncomingCall
    BY <1>7 DEF Hook
  <2> HIDE DEF g
  <2>2. QED
    BY <1>8, <2>1, SameCall DEF HasRemote, Follows
<1> HIDE DEF g
<1>10. Follows(h, c) /\ Follows(h, g)
  BY <1>6, <1>8, <1>9, FollowsTwice
<1>11. Follows(k, CleanupCall(k)) /\ Follows(c, CleanupCall(c))
  BY <1>4, <1>6, <1>7, <1>8, CleanupFollows DEF Follows
<1>12. Follows(h, CleanupCall(k)) /\ Follows(h, CleanupCall(c))
  BY <1>6, <1>10, <1>11, FollowsTwice
<1>13. QED
  BY <1>10, <1>12 DEF g, c

LEMMA AnswerFollows ==
    ASSUME NEW h, HookTrue(h), Joined(h), h.making > 0,
           NEW k, k = [h EXCEPT !.making = @ - 1]
    PROVE  /\ Follows(h, CleanupCall(k))
           /\ k.pc = "asked" => Follows(h, [k EXCEPT !.pc = "stable", !.isIncomingCall = FALSE,
                                                     !.status = "connected"])
<1>1. h \in Hook /\ h.making \in 0..MaxAnswers
  BY HookFields DEF HookTrue
<1>2. PICK n \in 0..MaxAnswers : n = h.making - 1
  BY <1>1
<1>3. k = [h EXCEPT !.making = n]
  BY <1>1, <1>2
<1>4. HookTrue(k) /\ k \in Hook
  BY <1>2, <1>3, FewerKeeps DEF HookTrue
<1>5. Follows(h, k)
  <2>1. /\ k.kind = h.kind /\ k.peer = h.peer /\ k.job = h.job /\ k.pc = h.pc
        /\ k.isCallActive = h.isCallActive /\ k.isIncomingCall = h.isIncomingCall
    BY <1>1, <1>3 DEF Hook
  <2>2. QED
    BY <2>1, SameCall DEF HasRemote
<1>6. Follows(h, CleanupCall(k))
  <2>1. Follows(k, CleanupCall(k))
    BY <1>4, <1>5, CleanupFollows DEF Follows
  <2>2. QED
    BY <1>5, <2>1, FollowsTwice
<1>7. ASSUME k.pc = "asked"
      PROVE  Follows(h, [k EXCEPT !.pc = "stable", !.isIncomingCall = FALSE,
                                  !.status = "connected"])
  <2> DEFINE g == [k EXCEPT !.pc = "stable", !.isIncomingCall = FALSE, !.status = "connected"]
  <2>1. /\ g.kind = k.kind /\ g.peer = k.peer /\ g.job = k.job /\ g.pc = "stable"
        /\ g.isCallActive = k.isCallActive
    BY <1>4 DEF Hook
  <2> HIDE DEF g
  <2>2. HasRemote(g) /\ HasRemote(k)
    BY <1>7, <2>1 DEF HasRemote
  <2>3. Follows(k, g)
    BY <1>5, <2>1, <2>2 DEF Follows, Joined, Over
  <2>4. QED
    BY <1>5, <2>3, FollowsTwice DEF g
<1>8. QED
  BY <1>6, <1>7

LEMMA ConnectedFollows ==
    ASSUME NEW h, HookTrue(h), Joined(h)
    PROVE  Follows(h, [h EXCEPT !.status = "connected"])
<1> DEFINE g == [h EXCEPT !.status = "connected"]
<1>1. /\ g.kind = h.kind /\ g.peer = h.peer /\ g.job = h.job /\ g.pc = h.pc
      /\ g.isCallActive = h.isCallActive /\ g.isIncomingCall = h.isIncomingCall
  BY DEF Hook, HookTrue
<1> HIDE DEF g
<1>2. QED
  BY <1>1, SameCall DEF HasRemote, g

\* The offer leaves: unless it is missed, the page it comes from shows the call.
LEMMA OfferTalks ==
    ASSUME CallInv, TalkInv, NEW u \in Users, NEW i \in DOMAIN hooks[u], OfferMade(u, i)
    PROVE  TalkInv'
<1> DEFINE h == hooks[u][i]
           p == h.peer
           g == [h EXCEPT !.job = "none", !.pc = "offered",
                          !.isCallActive = TRUE, !.status = "calling"]
<1>1. /\ h.job = "offering" /\ Put(u, i, g) /\ Send(u, p, "offer")
      /\ missed' = (missed \/ Lost(u, p) \/ ~(IsSession(u, i) /\ Settled(u)))
      /\ UNCHANGED <<outgoingCall, callData, mounted>>
  BY DEF OfferMade, Miss
<1>2. HookTrue(h) /\ h \in Hook /\ p \in Users /\ h.kind = "out" /\ HookTrue(g)
  <2>1. HookTrue(h)
    BY PageFacts
  <2>2. h \in Hook /\ p \in Users /\ h.kind = "out"
    BY <1>1, <2>1, HookFields DEF HookTrue, JobTrue
  <2>3. Keeps(h, g)
    BY <1>1, <2>1, OfferKeeps
  <2>4. QED
    BY <2>1, <2>2, <2>3 DEF Keeps
<1>3. g.kind = h.kind /\ g.peer = p /\ g.job = "none"
  BY <1>2 DEF Hook
<1> HIDE DEF g, h, p
<1>4. /\ IsSession(u, i) => Session(u)' = g
      /\ mounted[u] /\ ~IsSession(u, i) => Session(u)' = Session(u)
      /\ \A w \in Users : w # u => Session(w)' = Session(w)
  BY <1>1, <1>2, PutReads
<1>5. IsSession(u, i) => mounted[u] /\ Session(u) = h
  BY PageFacts DEF IsSession, h
<1>6. \A w \in Users : /\ outgoingCall'[w] = outgoingCall[w] /\ callData'[w] = callData[w]
                       /\ mounted'[w] = mounted[w] /\ Want(w)' = Want(w)
  BY <1>1, WantStays
<1>7. PagesJoined
  BY DEF TalkInv
<1>8. ASSUME NEW w \in Users, ~(w = u /\ IsSession(u, i)) PROVE PageFollows(w)
  BY <1>4, <1>6, <1>7, <1>8, PageStays
<1>9. PagesJoined'
  <2>1. SUFFICES ASSUME NEW w \in Users
                 PROVE  (mounted'[w] => Joined(Session(w)')) /\ OwnPeer(w)'
    BY DEF PagesJoined
  <2>2. CASE w = u /\ IsSession(u, i)
    <3>1. Joined(g)
      BY <1>2, <1>3 DEF Joined
    <3>2. OwnPeer(u)
      BY <1>7 DEF PagesJoined
    <3>3. OwnPeer(u)'
      BY <1>2, <1>3, <1>4, <1>5, <1>6, <2>2, <3>2 DEF OwnPeer, p
    <3>4. QED
      BY <1>4, <2>2, <3>1, <3>3
  <2>3. CASE ~(w = u /\ IsSession(u, i))
    BY <1>7, <1>8, <2>3 DEF PageFollows, Follows, PagesJoined, OwnPeer
  <2>4. QED
    BY <2>2, <2>3
<1>10. SUFFICES ASSUME ~missed', NEW x \in Users, NEW y \in Users
                PROVE  OfferMeant(x, y)' /\ CalleeHears(x, y)' /\ CallerHears(x, y)'
  BY <1>9 DEF TalkInv, Touching
<1>11. ~missed /\ ~Lost(u, p) /\ IsSession(u, i) /\ Settled(u)
  BY <1>1, <1>10
<1>12. Want(u).kind = "out" /\ Want(u).peer = p /\ outgoingCall[u] # None
  BY <1>2, <1>5, <1>11 DEF Settled, Shown, Want, p
<1>13. /\ wire[u][p] \in Seq(Signal) /\ wire'[u][p] = Append(wire[u][p], "offer")
       /\ \A a, b \in Users : a # u \/ b # p => wire'[a][b] = wire[a][b]
  BY <1>1, <1>2, <1>11, SendReads DEF CallInv, Signal
<1>14. /\ \A k \in Nat : EndAfter(wire[u][p], k) => EndAfter(wire'[u][p], k)
       /\ HasOffer(wire'[u][p])
  BY <1>13, AppendReads DEF Signal
<1>15. \A a, b \in Users : InTouch(a, b) => InTouch(a, b)'
  BY <1>6, <1>13, <1>14 DEF InTouch
<1>16. \A a, b \in Users : HasOffer(wire[a][b]) => HasOffer(wire[a][b])'
  BY <1>13, <1>14
<1>17. OfferMeant(x, y) /\ CalleeHears(x, y) /\ CallerHears(x, y)
  BY <1>11 DEF TalkInv, Touching
<1>18. OfferMeant(x, y)'
  <2>1. CASE x = u /\ y = p
    BY <1>6, <1>12, <2>1 DEF OfferMeant
  <2>2. CASE ~(x = u /\ y = p)
    BY <1>6, <1>13, <1>17, <2>2 DEF OfferMeant
  <2>3. QED
    BY <2>1, <2>2
<1>19. CASE x = u
  <2>1. CalleeHears(x, y)'
    BY <1>6, <1>12, <1>19 DEF CalleeHears
  <2>2. CallerHears(x, y)'
    BY <1>3, <1>4, <1>11, <1>14, <1>19 DEF CallerHears
  <2>3. QED
    BY <1>18, <2>1, <2>2
<1>20. CASE x # u
  <2>1. PageFollows(x)
    BY <1>8, <1>20
  <2>2. QED
    BY <1>15, <1>16, <1>17, <1>18, <2>1, StillHears
<1>21. QED
  BY <1>19, <1>20

LEMMA HookStepTalks ==
    ASSUME CallInv, TalkInv, NEW u \in Users, NEW i \in DOMAIN hooks[u], HookStep(u, i)
    PROVE  TalkInv'
<1> DEFINE h == hooks[u][i]
<1>1. HookTrue(h) /\ h.peer \in Users
  BY PageFacts, HookFields DEF HookTrue
<1>2. NetTypes
  BY DEF CallInv
<1>3. ASSUME NEW g, Keeps(h, g), Joined(h) => Follows(h, g), Put(u, i, g),
             UNCHANGED <<outgoingCall, callData, mounted>>, missed => missed',
             UNCHANGED wire \/ \E m \in {"answer", "candidate"} : Send(u, h.peer, m)
      PROVE  TalkInv'
  <2>1. \A x, y \in Users : WireFollows(x, y)
    BY <1>1, <1>2, <1>3, SendFollows, WireUnchanged
  <2>2. HookTrue(g)
    BY <1>3 DEF Keeps
  <2>3. QED
    BY <1>3, <2>1, <2>2, PutTalks
<1>4. CASE MediaForCall(u, i)
  <2>1. /\ h.job = "media" /\ UNCHANGED <<outgoingCall, callData, mounted, wire, missed>>
        /\ \/ Put(u, i, [CreatePeerConnection(GotMedia(h)) EXCEPT !.job = "offering"])
           \/ Put(u, i, [CleanupCall(h) EXCEPT !.job = "none"])
    BY <1>4 DEF MediaForCall
  <2>2. /\ Keeps(h, [CreatePeerConnection(GotMedia(h)) EXCEPT !.job = "offering"])
        /\ Keeps(h, [CleanupCall(h) EXCEPT !.job = "none"])
    BY <1>1, <2>1, MediaKeeps, FailureKeeps
  <2>3. /\ Joined(h) => Follows(h, [CreatePeerConnection(GotMedia(h)) EXCEPT !.job = "offering"])
        /\ Joined(h) => Follows(h, [CleanupCall(h) EXCEPT !.job = "none"])
    BY <1>1, <2>1, MediaFollows
  <2> HIDE DEF h
  <2>4. QED
    BY <1>3, <2>1, <2>2, <2>3
<1>5. CASE OfferMade(u, i)
  BY <1>5, OfferTalks
<1>6. CASE OfferFails(u, i)
  <2>1. /\ UNCHANGED <<outgoingCall, callData, mounted, wire, missed>>
        /\ Put(u, i, [CleanupCall(h) EXCEPT !.job = "none"])
    BY <1>6 DEF OfferFails
  <2>2. /\ Keeps(h, [CleanupCall(h) EXCEPT !.job = "none"])
        /\ Joined(h) => Follows(h, [CleanupCall(h) EXCEPT !.job = "none"])
    BY <1>1, FailureKeeps, FailureFollows
  <2> HIDE DEF h
  <2>3. QED
    BY <1>3, <2>1, <2>2
<1>7. CASE RemoteSet(u, i)
  <2> DEFINE g == IF h.job = "asking" THEN [h EXCEPT !.pc = "asked", !.job = "drainOffer"]
                  ELSE [h EXCEPT !.pc = "stable", !.job = "drainAnswer"]
  <2>1. /\ UNCHANGED <<outgoingCall, callData, mounted, wire, missed>>
        /\ h.job \in {"asking", "answered"}
        /\ Put(u, i, g) \/ Put(u, i, CleanupCall(h))
    BY SMTT(40), <1>7 DEF RemoteSet
  <2>2. Keeps(h, g) /\ Keeps(h, CleanupCall(h))
    BY ZenonT(60), <1>1, <2>1, RemoteKeeps, CleanupTrue
  <2>3. Joined(h) => Follows(h, g) /\ Follows(h, CleanupCall(h))
    BY <1>1, <2>1, RemoteFollows, CleanupFollows
  <2> HIDE DEF h, g
  <2>4. QED
    BY <1>3, <2>1, <2>2, <2>3
<1>8. CASE Drained(u, i)
  <2> DEFINE g == IF h.job = "drainOffer"
                    THEN [Drain(h) EXCEPT !.isIncomingCall = TRUE, !.isCallActive = TRUE,
                                          !.status = "ringing"]
                    ELSE [Drain(h) EXCEPT !.status = "connected"]
  <2>1. /\ UNCHANGED <<outgoingCall, callData, mounted, wire, missed>>
        /\ h.job \in {"drainOffer", "drainAnswer"} /\ Put(u, i, g)
    BY <1>8 DEF Drained
  <2>2. Keeps(h, g)
    BY <1>1, <2>1, DrainKeeps
  <2>3. Joined(h) => Follows(h, g)
    BY <1>1, <2>1, DrainFollows
  <2> HIDE DEF h, g
  <2>4. QED
    BY <1>3, <2>1, <2>2, <2>3
<1>9. CASE MediaForAnswer(u, i)
  <2> DEFINE k == [h EXCEPT !.answers = @ - 1]
  <2>1. /\ UNCHANGED <<outgoingCall, callData, mounted, wire, missed>>
        /\ h.answers > 0
        /\ \/ Put(u, i, IF k.pc = "none" THEN CleanupCall(GotMedia(k))
                        ELSE [GotMedia(k) EXCEPT !.making = @ + 1])
           \/ Put(u, i, CleanupCall(k))
    BY <1>9 DEF MediaForAnswer
  <2>2. /\ Keeps(h, CleanupCall(k)) /\ Keeps(h, CleanupCall(GotMedia(k)))
        /\ h.pc # "none" => Keeps(h, [GotMedia(k) EXCEPT !.making = @ + 1])
        /\ k.pc = h.pc
    BY <1>1, <2>1, PromptKeeps
  <2>3. Joined(h) => /\ Follows(h, CleanupCall(k)) /\ Follows(h, CleanupCall(GotMedia(k)))
                     /\ Follows(h, [GotMedia(k) EXCEPT !.making = @ + 1])
    BY <1>1, <2>1, PromptFollows
  <2> HIDE DEF h, k
  <2>4. CASE Put(u, i, CleanupCall(k))
    BY <1>3, <2>1, <2>2, <2>3, <2>4
  <2>5. CASE k.pc = "none" /\ Put(u, i, CleanupCall(GotMedia(k)))
    BY <1>3, <2>1, <2>2, <2>3, <2>5
  <2>6. CASE k.pc # "none" /\ Put(u, i, [GotMedia(k) EXCEPT !.making = @ + 1])
    BY <1>3, <2>1, <2>2, <2>3, <2>6
  <2>7. QED
    BY <2>1, <2>4, <2>5, <2>6
<1>10. CASE AnswerMade(u, i)
  <2> DEFINE k == [h EXCEPT !.making = @ - 1]
             g == [k EXCEPT !.pc = "stable", !.isIncomingCall = FALSE, !.status = "connected"]
  <2>1. /\ UNCHANGED <<outgoingCall, callData, mounted>> /\ h.making > 0
        /\ IF k.pc = "asked"
             THEN Put(u, i, g) /\ Send(u, k.peer, "answer") /\ (missed => missed')
             ELSE Put(u, i, CleanupCall(k)) /\ UNCHANGED <<wire, missed>>
    BY <1>10 DEF AnswerMade, Miss
  <2>2. /\ Keeps(h, CleanupCall(k)) /\ k.peer = h.peer
        /\ k.pc = "asked" => Keeps(h, g)
    BY <1>1, <2>1, AnswerKeeps
  <2>3. Joined(h) => Follows(h, CleanupCall(k)) /\ (k.pc = "asked" => Follows(h, g))
    BY <1>1, <2>1, AnswerFollows
  <2> HIDE DEF h, k, g
  <2>4. CASE k.pc = "asked"
    BY <1>3, <2>1, <2>2, <2>3, <2>4
  <2>5. CASE k.pc # "asked"
    BY <1>3, <2>1, <2>2, <2>3, <2>5
  <2>6. QED
    BY <2>4, <2>5
<1>11. CASE OnIceCandidate(u, i)
  <2>1. /\ UNCHANGED <<outgoingCall, callData, hooks, mounted, missed>>
        /\ Send(u, h.peer, "candidate")
    BY <1>11 DEF OnIceCandidate
  <2>2. \A x, y \in Users : WireFollows(x, y)
    BY <1>1, <1>2, <2>1, SendFollows
  <2>3. \A w \in Users : PageFollows(w)
    BY <2>1, PageStays DEF TalkInv, Session
  <2>4. QED
    BY <2>1, <2>2, <2>3, TalkStep
<1>12. CASE OnConnectionStateChange(u, i)
  <2>1. /\ UNCHANGED <<outgoingCall, callData, mounted, wire, missed>> /\ h.pc = "stable"
        /\ \/ Put(u, i, [h EXCEPT !.status = "connected"])
           \/ Put(u, i, CleanupCall(h))
    BY <1>12 DEF OnConnectionStateChange
  <2>2. Keeps(h, [h EXCEPT !.status = "connected"]) /\ Keeps(h, CleanupCall(h))
    BY <1>1, <2>1, ConnectedKeeps, CleanupTrue
  <2>3. Joined(h) => Follows(h, [h EXCEPT !.status = "connected"]) /\ Follows(h, CleanupCall(h))
    BY <1>1, ConnectedFollows, CleanupFollows
  <2> HIDE DEF h
  <2>4. CASE Put(u, i, [h EXCEPT !.status = "connected"])
    BY <1>3, <2>1, <2>2, <2>3, <2>4
  <2>5. CASE Put(u, i, CleanupCall(h))
    BY <1>3, <2>1, <2>2, <2>3, <2>5
  <2>6. QED
    BY <2>1, <2>4, <2>5
<1>13. QED
  BY <1>4, <1>5, <1>6, <1>7, <1>8, <1>9, <1>10, <1>11, <1>12, Zenon DEF HookStep

LEMMA AnswerClickTalks ==
    ASSUME CallInv, TalkInv, NEW u \in Users, AnswerClick(u)
    PROVE  TalkInv'
<1> DEFINE S == Session(u)
           k == StopMediaTracks(S)
           h == [k EXCEPT !.answers = @ + 1]
<1>1. /\ mounted[u] /\ S.answers + S.making < MaxAnswers /\ PutSession(u, h)
      /\ UNCHANGED <<outgoingCall, callData, mounted, wire, missed>>
  BY DEF AnswerClick, Settled
<1>2. HookTrue(S) /\ S \in Hook
  BY <1>1, PageFacts DEF HookTrue
<1>3. HookTrue(h) /\ (Joined(S) => Follows(S, h))
  <2>1. HookTrue(k) /\ k \in Hook
    BY <1>2, StopKeeps DEF Keeps, HookTrue
  <2>2. /\ k.kind = S.kind /\ k.peer = S.peer /\ k.job = S.job /\ k.pc = S.pc
        /\ k.isCallActive = S.isCallActive /\ k.isIncomingCall = S.isIncomingCall
        /\ k.answers = S.answers /\ k.making = S.making
    BY <1>2 DEF Hook, StopMediaTracks
  <2>3. S.answers \in Nat /\ S.making \in Nat
    BY <1>2, HookFields
  <2> HIDE DEF S, k
  <2>4. PICK n \in 0..MaxAnswers : n = k.answers + 1
    BY <1>1, <2>2, <2>3
  <2>5. h = [k EXCEPT !.answers = n]
    BY <2>1, <2>4
  <2>6. h \in Hook
    BY <2>1, <2>4, <2>5 DEF Hook
  <2>7. /\ h.kind = k.kind /\ h.pc = k.pc /\ h.job = k.job /\ h.peer = k.peer
        /\ h.answers = n /\ h.making = k.making
        /\ h.isCallActive = k.isCallActive /\ h.isIncomingCall = k.isIncomingCall
        /\ h.added = k.added /\ h.pending = k.pending /\ h.heard = k.heard
    BY <2>1, <2>5 DEF Hook
  <2> HIDE DEF h
  <2>8. h.answers + h.making <= MaxAnswers
    BY <1>1, <2>2, <2>3, <2>4, <2>7
  <2>9. HookTrue(h)
    BY <2>1, <2>6, <2>7, <2>8 DEF HookTrue, JobTrue, Counted, Fresh, HasRemote
  <2>10. Joined(S) => Follows(S, h)
    BY <2>2, <2>7, SameCall DEF HasRemote
  <2>11. QED
    BY <2>9, <2>10
<1> HIDE DEF h
<1>4. \A w \in Users : PageFollows(w)
  BY <1>1, <1>3, PutSessionFollows DEF TalkInv, S
<1>5. QED
  BY <1>1, <1>4, TalkStep, WireUnchanged

LEMMA IdleTimerTalks ==
    ASSUME CallInv, TalkInv, NEW u \in Users, IdleTimer(u)
    PROVE  TalkInv'
<1> DEFINE S == Session(u)
           h == [S EXCEPT !.idleTimer = FALSE, !.status = "idle"]
<1>1. /\ mounted[u] /\ PutSession(u, h)
      /\ UNCHANGED <<outgoingCall, callData, mounted, wire, missed>>
  BY DEF IdleTimer
<1>2. HookTrue(S) /\ S \in Hook
  BY <1>1, PageFacts DEF HookTrue
<1>3. h \in Hook
  BY <1>2 DEF Hook
<1>4. /\ h.kind = S.kind /\ h.pc = S.pc /\ h.job = S.job /\ h.peer = S.peer
      /\ h.answers = S.answers /\ h.making = S.making
      /\ h.isCallActive = S.isCallActive /\ h.isIncomingCall = S.isIncomingCall
      /\ h.added = S.added /\ h.pending = S.pending /\ h.heard = S.heard
  BY <1>2 DEF Hook
<1> HIDE DEF h, S
<1>5. HookTrue(h)
  BY <1>2, <1>3, <1>4 DEF HookTrue, JobTrue, Counted, Fresh, HasRemote
<1>6. Joined(S) => Follows(S, h)
  BY <1>4, SameCall DEF HasRemote
<1>7. \A w \in Users : PageFollows(w)
  BY <1>1, <1>5, <1>6, PutSessionFollows DEF TalkInv, S
<1>8. QED
  BY <1>1, <1>7, TalkStep, WireUnchanged

\* What React shows after it has committed.
LEMMA RenderReads ==
    ASSUME CallInv, NEW u \in Users, Render(u)
    PROVE  /\ UNCHANGED <<outgoingCall, callData, wire, missed>>
           /\ \A w \in Users : w # u =>
                 mounted'[w] = mounted[w] /\ Session(w)' = Session(w)
           /\ \/ ~mounted'[u]
              \/ /\ Want(u).kind \in {"out", "in"} /\ Want(u).peer \in Users
                 /\ Session(u)' = NewHook(Want(u).kind, Want(u).peer)
              \/ /\ mounted[u] /\ Session(u).kind = Want(u).kind /\ Want(u).peer \in Users
                 /\ Session(u)' = [Session(u) EXCEPT !.peer = Want(u).peer]
<1> DEFINE s == hooks[u]
           w == Want(u)
<1>1. /\ hooks \in [Users -> Seq(Hook)] /\ mounted \in [Users -> BOOLEAN] /\ HooksTrue(s)
      /\ outgoingCall[u] \in Users \cup {None} /\ callData[u] \in Users \cup {None}
  BY PageFacts DEF CallInv, StoreTypes, PageTrue
<1>2. UNCHANGED <<outgoingCall, callData, wire, missed>>
  BY DEF Render
<1>3. w.kind # "none" => w.kind \in {"out", "in"} /\ w.peer \in Users
  BY <1>1 DEF Want
<1>4. CASE w.kind = "none"
  <2>1. /\ mounted' = [mounted EXCEPT ![u] = FALSE]
        /\ hooks' = [hooks EXCEPT ![u] = Remaining(@)]
    BY <1>4 DEF Render
  <2>2. QED
    BY <1>1, <1>2, <2>1 DEF Session
<1>5. CASE w.kind # "none" /\ w.kind # Shown(u).kind
  <2> DEFINE n == NewHook(w.kind, w.peer)
             t == Append(Remaining(s), n)
  <2>1. mounted' = [mounted EXCEPT ![u] = TRUE] /\ hooks' = [hooks EXCEPT ![u] = t]
    BY <1>5 DEF Render
  <2>2. Remaining(s) \in Seq(Hook) /\ n \in Hook
    BY <1>1, <1>3, <1>5, RemainingReads, NewHookTrue DEF HooksTrue, HookTrue
  <2> HIDE DEF n
  <2>3. Last(t) = n
    BY <2>2, AppendProperties DEF Last
  <2> HIDE DEF t, s, w
  <2>4. Session(u)' = n /\ \A x \in Users : x # u => hooks'[x] = hooks[x] /\ mounted'[x] = mounted[x]
    BY <1>1, <2>1, <2>3 DEF Session
  <2>5. \A x \in Users : x # u => Session(x)' = Session(x) /\ mounted'[x] = mounted[x]
    BY <2>4 DEF Session
  <2>6. QED
    BY <1>2, <1>3, <1>5, <2>4, <2>5 DEF n, w
<1>6. CASE w.kind # "none" /\ w.kind = Shown(u).kind
  <2> DEFINE S == Session(u)
             h == [S EXCEPT !.peer = w.peer]
  <2>1. PutSession(u, h) /\ UNCHANGED mounted
    BY <1>6 DEF Render
  <2>2. mounted[u] /\ S.kind = w.kind
    BY <1>6 DEF Shown
  <2>3. S \in Hook /\ Len(s) \in 1..Len(s) /\ HookTrue(S)
    BY <2>2, PageFacts DEF HookTrue
  <2>4. HookTrue(h)
    <3>1. h \in Hook
      BY <1>3, <1>6, <2>3 DEF Hook
    <3>2. /\ h.kind = S.kind /\ h.pc = S.pc /\ h.job = S.job /\ h.camera = S.camera
          /\ h.answers = S.answers /\ h.making = S.making
          /\ h.added = S.added /\ h.pending = S.pending /\ h.heard = S.heard
      BY <2>3 DEF Hook
    <3> HIDE DEF h, S
    <3>3. QED
      BY <2>3, <3>1, <3>2 DEF HookTrue, JobTrue, Counted, Fresh, HasRemote
  <2>5. Session(u)' = h /\ \A x \in Users : x # u => Session(x)' = Session(x)
    <3> HIDE DEF h
    <3>1. hooks' = [hooks EXCEPT ![u] = [@ EXCEPT ![Len(s)] = h]]
      BY <2>1 DEF PutSession
    <3>2. QED
      BY <2>2, <2>3, <2>4, <3>1, SessionReads
  <2>6. QED
    BY <1>2, <1>3, <1>6, <2>1, <2>2, <2>5
<1>7. QED
  BY <1>4, <1>5, <1>6

LEMMA RenderTalks ==
    ASSUME CallInv, TalkInv, NEW u \in Users, Render(u)
    PROVE  TalkInv'
<1> DEFINE w == Want(u)
           S == Session(u)
<1>1. /\ UNCHANGED <<outgoingCall, callData, wire, missed>> /\ w # Shown(u)
      /\ \A x \in Users : x # u => mounted'[x] = mounted[x] /\ Session(x)' = Session(x)
  BY RenderReads DEF Render
<1>2. \/ ~mounted'[u]
      \/ /\ w.kind \in {"out", "in"} /\ w.peer \in Users
         /\ Session(u)' = NewHook(w.kind, w.peer)
      \/ /\ mounted[u] /\ S.kind = w.kind /\ w.peer \in Users
         /\ Session(u)' = [S EXCEPT !.peer = w.peer]
  BY RenderReads
<1>3. \A x \in Users : Want(x)' = Want(x)
  BY <1>1, WantStays
<1>4. \A x, y \in Users : InTouch(x, y)' = InTouch(x, y)
  BY <1>1, <1>3 DEF InTouch
<1>5. ~Settled(u) /\ PagesJoined
  BY <1>1 DEF Settled, TalkInv
<1>6. \A x \in Users : x # u => PageFollows(x)
  BY <1>1, <1>5, PageStays
<1>7. ASSUME mounted'[u]
      PROVE  /\ Joined(Session(u)') /\ Session(u)'.peer = w.peer
             /\ Session(u)'.kind = "out" => ~Session(u)'.isCallActive
  <2>1. CASE Session(u)' = NewHook(w.kind, w.peer)
    BY <2>1 DEF NewHook, Joined
  <2>2. CASE /\ mounted[u] /\ S.kind = w.kind /\ w.peer \in Users
             /\ Session(u)' = [S EXCEPT !.peer = w.peer]
    <3>1. S \in Hook /\ Joined(S) /\ OwnPeer(u)
      BY <1>5, <2>2, PageFacts DEF HookTrue, PagesJoined
    <3> DEFINE g == [S EXCEPT !.peer = w.peer]
    <3>2. /\ g.kind = S.kind /\ g.peer = w.peer /\ g.job = S.job /\ g.pc = S.pc
          /\ g.isCallActive = S.isCallActive /\ g.isIncomingCall = S.isIncomingCall
      BY <3>1 DEF Hook
    <3>3. Session(u)' = g
      BY <2>2
    <3> HIDE DEF g, S
    <3>4. S.kind # "out"
      <4>1. SUFFICES ASSUME S.kind = "out" PROVE FALSE
        OBVIOUS
      <4>2. outgoingCall[u] # None /\ w.peer = outgoingCall[u]
        BY <2>2, <4>1 DEF Want
      <4>3. S.peer = outgoingCall[u]
        BY <2>2, <3>1, <4>1, <4>2 DEF OwnPeer, S
      <4>4. w = [kind |-> "out", peer |-> outgoingCall[u]]
        BY <4>2 DEF Want
      <4>5. Shown(u) = [kind |-> S.kind, peer |-> S.peer]
        BY <2>2 DEF Shown, S
      <4>6. QED
        BY <1>1, <4>1, <4>3, <4>4, <4>5
    <3>5. QED
      BY <3>1, <3>2, <3>3, <3>4 DEF Joined, HasRemote
  <2>3. QED
    BY <1>2, <1>7, <2>1, <2>2
<1>8. PagesJoined'
  <2>1. SUFFICES ASSUME NEW x \in Users
                 PROVE  (mounted'[x] => Joined(Session(x)')) /\ OwnPeer(x)'
    BY DEF PagesJoined
  <2>2. CASE x = u
    <3>1. outgoingCall[u] # None => w.peer = outgoingCall[u]
      BY DEF Want
    <3>2. QED
      BY <1>1, <1>7, <2>2, <3>1 DEF OwnPeer
  <2>3. CASE x # u
    BY <1>1, <1>5, <2>3 DEF PagesJoined, OwnPeer
  <2>4. QED
    BY <2>2, <2>3
<1>9. SUFFICES ASSUME ~missed', NEW x \in Users, NEW y \in Users
               PROVE  OfferMeant(x, y)' /\ CalleeHears(x, y)' /\ CallerHears(x, y)'
  BY <1>8 DEF TalkInv, Touching
<1>10. OfferMeant(x, y) /\ CalleeHears(x, y) /\ CallerHears(x, y)
  BY <1>1, <1>9 DEF TalkInv, Touching
<1>11. OfferMeant(x, y)'
  BY <1>1, <1>3, <1>10 DEF OfferMeant
<1>12. CASE x = u
  <2>1. CalleeHears(x, y)'
    BY <1>1, <1>4, <1>5, <1>10, <1>12 DEF CalleeHears
  <2>2. CallerHears(x, y)'
    BY <1>7, <1>12 DEF CallerHears, Settled
  <2>3. QED
    BY <1>11, <2>1, <2>2
<1>13. CASE x # u
  <2>1. PageFollows(x)
    BY <1>6, <1>13
  <2>2. HasOffer(wire[x][y]) => HasOffer(wire[x][y])'
    BY <1>1
  <2>3. QED
    BY <1>4, <1>10, <1>11, <2>1, <2>2, StillHears
<1>14. QED
  BY <1>12, <1>13

LEMMA CallClickTalks ==
    ASSUME CallInv, TalkInv, NEW u \in Users, NEW v \in Users, CallClick(u, v)
    PROVE  TalkInv'
<1>1. /\ Want(u).kind = "none" /\ ~mounted[u]
      /\ outgoingCall' = [outgoingCall EXCEPT ![u] = v]
      /\ UNCHANGED <<callData, hooks, mounted, wire, missed>>
  BY DEF CallClick
<1>2. /\ outgoingCall'[u] = v /\ v # None
      /\ \A x \in Users : x # u => outgoingCall'[x] = outgoingCall[x]
  BY <1>1 DEF CallInv, StoreTypes
<1>3. PagesJoined
  BY DEF TalkInv
<1>4. \A x \in Users : Session(x)' = Session(x)
  BY <1>1 DEF Session
<1>5. \A x \in Users : x # u => PageFollows(x) /\ Want(x)' = Want(x)
  BY <1>1, <1>2, <1>3, <1>4, PageStays, WantStays
<1>6. PagesJoined'
  <2>1. SUFFICES ASSUME NEW x \in Users
                 PROVE  (mounted'[x] => Joined(Session(x)')) /\ OwnPeer(x)'
    BY DEF PagesJoined
  <2>2. QED
    BY <1>1, <1>2, <1>3, <1>4 DEF PagesJoined, OwnPeer
<1>7. \A x, y \in Users : Want(x).peer = y => Want(x)'.peer = y
  <2>1. Want(u).peer = None
    BY <1>1 DEF Want
  <2>2. QED
    BY <1>5, <2>1
<1>8. \A x, y \in Users : InTouch(x, y) => InTouch(x, y)'
  BY <1>1, <1>7 DEF InTouch
<1>9. SUFFICES ASSUME ~missed', NEW x \in Users, NEW y \in Users
               PROVE  OfferMeant(x, y)' /\ CalleeHears(x, y)' /\ CallerHears(x, y)'
  BY <1>6 DEF TalkInv, Touching
<1>10. OfferMeant(x, y) /\ CalleeHears(x, y) /\ CallerHears(x, y)
  BY <1>1, <1>9 DEF TalkInv, Touching
<1>11. OfferMeant(x, y)'
  BY <1>1, <1>7, <1>10 DEF OfferMeant
<1>12. CASE x = u
  BY <1>1, <1>2, <1>11, <1>12 DEF CalleeHears, CallerHears, Settled
<1>13. CASE x # u
  <2>1. HasOffer(wire[x][y]) => HasOffer(wire[x][y])'
    BY <1>1
  <2>2. QED
    BY <1>5, <1>8, <1>10, <1>11, <1>13, <2>1, StillHears
<1>14. QED
  BY <1>12, <1>13

\* The end of a session is said to the other user, and the page waits for him
\* no longer.
LEMMA SayTalks ==
    ASSUME CallInv, TalkInv, NEW u \in Users, NEW m \in Ends, Settled(u),
           SayAndCleanup(u, m), UNCHANGED mounted,
           \/ OnEnd(u)
           \/ Session(u).kind = "out" /\ UNCHANGED <<outgoingCall, callData>>
    PROVE  TalkInv'
<1> DEFINE S == Session(u)
           p == S.peer
           h == CleanupCall(S)
           o == outgoingCall[u]
           d == callData[u]
<1>1. mounted[u] /\ Want(u) = Shown(u)
  BY DEF Settled
<1>2. /\ HookTrue(S) /\ p \in Users /\ S.kind \in {"out", "in"}
      /\ Len(hooks[u]) \in 1..Len(hooks[u])
      /\ PageTrue(hooks[u], mounted[u], o, d) /\ S = hooks[u][Len(hooks[u])]
  BY <1>1, PageFacts, HookFields DEF HookTrue
<1>3. Send(u, p, m) /\ missed' = (missed \/ Lost(u, p)) /\ PutSession(u, h)
  BY DEF SayAndCleanup, Miss
<1>4. Joined(S) /\ PagesJoined /\ OwnPeer(u)
  BY <1>1 DEF TalkInv, PagesJoined
<1>5. HookTrue(h) /\ Follows(S, h) /\ ~h.isCallActive
  BY <1>2, <1>4, CleanupFollows
<1> HIDE DEF h
<1>6. Session(u)' = h /\ \A x \in Users : x # u => Session(x)' = Session(x)
  <2>1. hooks' = [hooks EXCEPT ![u] = [@ EXCEPT ![Len(hooks[u])] = h]]
    BY <1>3 DEF PutSession
  <2>2. QED
    BY <1>1, <1>2, <1>5, <2>1, SessionReads
<1>7. Want(u) = [kind |-> S.kind, peer |-> p]
  BY <1>1 DEF Shown
<1> HIDE DEF p
<1>8. /\ S.kind = "out" => o # None /\ d = None
      /\ S.kind = "in" => o = None
  <2>1. o # None => d = None
    BY <1>2 DEF PageTrue
  <2>2. Want(u).kind = S.kind
    BY <1>7
  <2>3. QED
    BY <2>1, <2>2 DEF Want
<1>9. /\ \A x \in Users : x # u => /\ outgoingCall'[x] = outgoingCall[x]
                                   /\ callData'[x] = callData[x]
      /\ outgoingCall'[u] \in {None, o} /\ callData'[u] = None
  <2>1. /\ outgoingCall \in [Users -> Users \cup {None}]
        /\ callData \in [Users -> Users \cup {None}]
    BY DEF CallInv, StoreTypes
  <2>2. CASE OnEnd(u) /\ S.kind = "out"
    BY <1>8, <2>1, <2>2 DEF OnEnd
  <2>3. CASE OnEnd(u) /\ S.kind # "out"
    BY <2>1, <2>3 DEF OnEnd
  <2>4. CASE S.kind = "out" /\ UNCHANGED <<outgoingCall, callData>>
    BY <1>8, <2>4
  <2>5. QED
    BY <2>2, <2>3, <2>4
<1>10. \A x \in Users : x # u => PageFollows(x) /\ Want(x)' = Want(x)
  BY <1>4, <1>6, <1>9, PageStays, WantStays
<1>11. PagesJoined'
  <2>1. SUFFICES ASSUME NEW x \in Users
                 PROVE  (mounted'[x] => Joined(Session(x)')) /\ OwnPeer(x)'
    BY DEF PagesJoined
  <2>2. CASE x = u
    BY <1>1, <1>4, <1>5, <1>6, <1>9, <2>2 DEF OwnPeer, Follows
  <2>3. CASE x # u
    BY <1>4, <1>6, <1>9, <2>3 DEF PagesJoined, OwnPeer
  <2>4. QED
    BY <2>2, <2>3
<1>12. SUFFICES ASSUME ~missed', NEW x \in Users, NEW y \in Users
                PROVE  OfferMeant(x, y)' /\ CalleeHears(x, y)' /\ CallerHears(x, y)'
  BY <1>11 DEF TalkInv, Touching
<1>13. ~missed /\ ~Lost(u, p)
  BY <1>3, <1>12
<1>14. /\ wire[u][p] \in Seq(Signal) /\ wire'[u][p] = Append(wire[u][p], m) /\ m \in Signal
       /\ m # "offer" /\ \A a, b \in Users : a # u \/ b # p => wire'[a][b] = wire[a][b]
  <2>1. m \in Signal /\ m # "offer"
    BY DEF Ends, Signal
  <2>2. NetTypes /\ p \in Users /\ Send(u, p, m)
    BY <1>2, <1>3 DEF CallInv
  <2>3. QED
    BY <1>13, <2>1, <2>2, SendReads
<1>15. /\ \A i \in 0..Len(wire[u][p]) : EndAfter(wire'[u][p], i)
       /\ HasOffer(wire[u][p]) => HasOffer(wire'[u][p])
       /\ \A i \in 1..Len(wire'[u][p]) : wire'[u][p][i] = "offer" => i \in 1..Len(wire[u][p])
  <2> DEFINE q == wire[u][p]
             r == wire'[u][p]
  <2>1. q \in Seq(Signal) /\ m \in Signal /\ m \in Ends /\ m # "offer" /\ r = Append(q, m)
    BY <1>14
  <2> HIDE DEF q, r
  <2>2. /\ \A i \in 0..Len(q) : EndAfter(r, i)
        /\ HasOffer(q) => HasOffer(r)
        /\ \A i \in 1..Len(r) : r[i] = "offer" => i \in 1..Len(q)
    BY <2>1, AppendReads
  <2>3. QED
    BY <2>2 DEF q, r
<1>16. Len(wire[u][p]) \in Nat
  BY <1>14, LenProperties
<1>17. EndAfter(wire'[u][p], 0)
  BY <1>15, <1>16
<1>18. \A a, b \in Users : InTouch(a, b) => InTouch(a, b)'
  <2>1. SUFFICES ASSUME NEW a \in Users, NEW b \in Users, InTouch(a, b)
                 PROVE  InTouch(a, b)'
    OBVIOUS
  <2>2. CASE a = u /\ b = p
    BY <1>17, <2>2 DEF InTouch
  <2>3. CASE a = u /\ b # p
    BY <1>7, <1>14, <2>1, <2>3 DEF InTouch
  <2>4. CASE a # u
    BY <1>10, <1>14, <2>1, <2>4 DEF InTouch
  <2>5. QED
    BY <2>2, <2>3, <2>4
<1>19. \A a, b \in Users : HasOffer(wire[a][b]) => HasOffer(wire[a][b])'
  BY <1>14, <1>15
<1>20. OfferMeant(x, y) /\ CalleeHears(x, y) /\ CallerHears(x, y)
  BY <1>13 DEF TalkInv, Touching
<1>21. OfferMeant(x, y)'
  <2>1. CASE x = u /\ y = p
    <3>1. \A i \in 1..Len(wire'[u][p]) : wire'[u][p][i] = "offer" => EndAfter(wire'[u][p], i)
      BY <1>15, <1>16
    <3>2. QED
      BY <2>1, <3>1 DEF OfferMeant
  <2>2. CASE x = u /\ y # p
    BY <1>7, <1>14, <1>20, <2>2 DEF OfferMeant
  <2>3. CASE x # u
    BY <1>10, <1>14, <1>20, <2>3 DEF OfferMeant
  <2>4. QED
    BY <2>1, <2>2, <2>3
<1>22. CASE x = u
  <2>1. CalleeHears(x, y)'
    BY <1>9, <1>22 DEF CalleeHears
  <2>2. CallerHears(x, y)'
    BY <1>5, <1>6, <1>22 DEF CallerHears
  <2>3. QED
    BY <1>21, <2>1, <2>2
<1>23. CASE x # u
  BY <1>10, <1>18, <1>19, <1>20, <1>21, <1>23, StillHears
<1>24. QED
  BY <1>22, <1>23

\* A signal arrives.
LEMMA DeliverTalks ==
    ASSUME CallInv, TalkInv, NEW u \in Users, NEW v \in Users, Deliver(u, v)
    PROVE  TalkInv'
<1> DEFINE q == wire[u][v]
           m == Head(q)
           S == Session(v)
           h == HandleWebRTCSignal(S, m)
<1>1. q # <<>> /\ q \in Seq(Signal) /\ wire \in [Users -> [Users -> Seq(Signal)]]
  BY DEF Deliver, CallInv, NetTypes
<1>2. m \in Signal
  BY <1>1, HeadTailProperties
<1>3. /\ wire' = [wire EXCEPT ![u][v] = Tail(@)] /\ UNCHANGED mounted
      /\ missed' = (\/ missed
                    \/ \/ m = "offer" /\ Want(v).peer \notin {None, u}
                       \/ m \in Ends /\ Want(v) # Shown(v) /\ Want(v).peer = u)
      /\ IF m = "offer"
           THEN /\ outgoingCall' = [outgoingCall EXCEPT ![v] = None]
                /\ callData' = [callData EXCEPT ![v] = u]
           ELSE UNCHANGED <<outgoingCall, callData>>
      /\ IF mounted[v] /\ S.peer = u THEN PutSession(v, h) ELSE UNCHANGED hooks
  BY DEF Deliver, Miss, Ends
<1>4. wire'[u][v] = Tail(q) /\ \A a, b \in Users : a # u \/ b # v => wire'[a][b] = wire[a][b]
  BY <1>1, <1>3
<1>5. /\ \A i \in Nat : EndAfter(q, i + 1) => EndAfter(Tail(q), i)
      /\ m \notin Ends /\ EndAfter(q, 0) => EndAfter(Tail(q), 0)
      /\ m # "offer" /\ HasOffer(q) => HasOffer(Tail(q))
      /\ m = q[1] /\ 1 \in 1..Len(q)
      /\ \A i \in 1..Len(Tail(q)) : i + 1 \in 1..Len(q) /\ Tail(q)[i] = q[i + 1]
  BY <1>1, TailReads
<1>6. PagesJoined
  BY DEF TalkInv
<1>7. ASSUME mounted[v], S.peer = u
      PROVE  /\ Session(v)' = h /\ Follows(S, h)
             /\ m \in Ends => Over(h) /\ ~h.isCallActive
             /\ \A x \in Users : x # v => Session(x)' = Session(x)
  <2>1. HookTrue(S) /\ Joined(S) /\ Len(hooks[v]) \in 1..Len(hooks[v])
    BY <1>6, <1>7, PageFacts DEF PagesJoined
  <2> HIDE DEF S, m
  <2>2. HookTrue(h) /\ Follows(S, h) /\ (m \in Ends => Over(h) /\ ~h.isCallActive)
    BY <1>2, <2>1, SignalTrue, SignalFollows DEF Keeps
  <2> HIDE DEF h
  <2>3. hooks' = [hooks EXCEPT ![v] = [@ EXCEPT ![Len(hooks[v])] = h]]
    BY <1>3, <1>7 DEF PutSession
  <2>4. QED
    BY <1>7, <2>1, <2>2, <2>3, SessionReads
<1>8. ASSUME ~(mounted[v] /\ S.peer = u)
      PROVE  \A x \in Users : Session(x)' = Session(x)
  BY <1>3, <1>8 DEF Session
<1> HIDE DEF m, h, S, q
<1>9. \A x \in Users : x # v => /\ Session(x)' = Session(x)
                                /\ outgoingCall'[x] = outgoingCall[x]
                                /\ callData'[x] = callData[x]
                                /\ PageFollows(x) /\ Want(x)' = Want(x)
  <2>1. SUFFICES ASSUME NEW x \in Users, x # v
                 PROVE  /\ Session(x)' = Session(x)
                        /\ outgoingCall'[x] = outgoingCall[x] /\ callData'[x] = callData[x]
    BY <1>3, <1>6, PageStays, WantStays
  <2>2. outgoingCall'[x] = outgoingCall[x] /\ callData'[x] = callData[x]
    BY <1>3, <2>1 DEF CallInv, StoreTypes
  <2>3. QED
    BY <1>7, <1>8, <2>1, <2>2
<1>10. mounted[v] => Follows(S, Session(v)')
  BY <1>6, <1>7, <1>8, FollowsSelf DEF PagesJoined, S
<1>11. PagesJoined'
  <2>1. SUFFICES ASSUME NEW x \in Users
                 PROVE  (mounted'[x] => Joined(Session(x)')) /\ OwnPeer(x)'
    BY DEF PagesJoined
  <2>2. CASE x = v
    <3>1. outgoingCall'[v] \in {None, outgoingCall[v]}
      BY <1>3 DEF CallInv, StoreTypes
    <3>2. OwnPeer(v)
      BY <1>6 DEF PagesJoined
    <3>3. QED
      BY <1>3, <1>10, <2>2, <3>1, <3>2 DEF OwnPeer, Follows, S
  <2>3. CASE x # v
    BY <1>3, <1>6, <1>9, <2>3 DEF PagesJoined, OwnPeer
  <2>4. QED
    BY <2>2, <2>3
<1>12. SUFFICES ASSUME ~missed', NEW x \in Users, NEW y \in Users
                PROVE  OfferMeant(x, y)' /\ CalleeHears(x, y)' /\ CallerHears(x, y)'
  BY <1>11 DEF TalkInv, Touching
<1>13. /\ ~missed
       /\ m = "offer" => Want(v).peer \in {None, u}
       /\ m \in Ends /\ Want(v).peer = u => Want(v) = Shown(v)
  BY <1>3, <1>12
<1>14. Touching
  BY <1>13 DEF TalkInv
<1>15. m = "offer" => Want(v)' = [kind |-> "in", peer |-> u]
  <2>1. m = "offer" => outgoingCall'[v] = None /\ callData'[v] = u
    BY <1>3 DEF CallInv, StoreTypes
  <2>2. QED
    BY <2>1 DEF Want
<1>16. m # "offer" => PageFollows(v) /\ Want(v)' = Want(v)
  BY <1>3, <1>10, WantStays DEF PageFollows, S
<1>17. \A a, b \in Users : Want(a).peer = b => Want(a)'.peer = b
  <2>1. SUFFICES ASSUME NEW a \in Users, NEW b \in Users, Want(a).peer = b
                 PROVE  Want(a)'.peer = b
    OBVIOUS
  <2>2. CASE a = v /\ m = "offer"
    <3>1. b = u
      BY <1>13, <2>1, <2>2
    <3>2. QED
      BY <1>15, <2>2, <3>1
  <2>3. CASE ~(a = v /\ m = "offer")
    BY <1>9, <1>16, <2>1, <2>3
  <2>4. QED
    BY <2>2, <2>3
<1>18. \A a, b \in Users : ~(a = u /\ b = v /\ m \in Ends) /\ InTouch(a, b) => InTouch(a, b)'
  BY <1>4, <1>5, <1>17 DEF InTouch, q
<1>19. OfferMeant(x, y)'
  <2>1. OfferMeant(x, y)
    BY <1>14 DEF Touching
  <2>2. CASE x = u /\ y = v
    <3>1. SUFFICES ASSUME NEW i \in 1..Len(Tail(q)), Tail(q)[i] = "offer"
                   PROVE  Want(u)'.peer = v \/ EndAfter(Tail(q), i)
      BY <1>4, <2>2 DEF OfferMeant
    <3>2. i + 1 \in 1..Len(q) /\ q[i + 1] = "offer" /\ i \in Nat
      <4>1. Len(Tail(q)) \in Nat
        BY <1>1, HeadTailProperties, LenProperties
      <4>2. QED
        BY <1>5, <3>1, <4>1
    <3>3. Want(u).peer = v \/ EndAfter(q, i + 1)
      BY <2>1, <2>2, <3>2 DEF OfferMeant, q
    <3>4. QED
      BY <1>5, <1>17, <3>2, <3>3
  <2>3. CASE ~(x = u /\ y = v)
    BY <1>4, <1>17, <2>1, <2>3 DEF OfferMeant
  <2>4. QED
    BY <2>2, <2>3
<1>20. CalleeHears(x, y) /\ CallerHears(x, y)
  BY <1>14 DEF Touching
<1>21. CASE x # v
  <2>1. InTouch(y, x) => InTouch(y, x)'
    BY <1>18, <1>21
  <2>2. HasOffer(wire[x][y]) => HasOffer(wire[x][y])' \/ InTouch(y, x)'
    <3>1. CASE x = u /\ y = v
      <4>1. m = "offer" => InTouch(v, u)'
        BY <1>15 DEF InTouch
      <4>2. QED
        BY <1>4, <1>5, <3>1, <4>1 DEF q
    <3>2. CASE ~(x = u /\ y = v)
      BY <1>4, <3>2
    <3>3. QED
      BY <3>1, <3>2
  <2>3. QED
    BY <1>9, <1>19, <1>20, <1>21, <2>1, <2>2, StillHears
<1>22. CASE x = v /\ m = "offer"
  <2>1. Settled(v)' => Session(v)'.kind = "in"
    BY <1>15, <1>22 DEF Settled, Shown
  <2>2. CallerHears(x, y)'
    BY <1>22, <2>1 DEF CallerHears
  <2>3. InTouch(u, v)'
    <3>1. Want(u).peer = v \/ EndAfter(q, 1)
      <4>1. 1 \in 1..Len(wire[u][v]) /\ wire[u][v][1] = "offer"
        BY <1>5, <1>22 DEF q
      <4>2. OfferMeant(u, v)
        BY <1>14 DEF Touching
      <4>3. QED
        BY <4>1, <4>2 DEF OfferMeant, q
    <3>2. EndAfter(q, 1) => EndAfter(Tail(q), 0)
      <4>1. EndAfter(q, 0 + 1) => EndAfter(Tail(q), 0)
        BY <1>5
      <4>2. QED
        BY <4>1
    <3>3. QED
      BY <1>4, <1>17, <3>1, <3>2 DEF InTouch
  <2>4. callData'[v] = u
    BY <1>3, <1>22 DEF CallInv, StoreTypes
  <2>5. QED
    BY <1>19, <1>22, <2>2, <2>3, <2>4 DEF CalleeHears
<1>23. CASE x = v /\ m # "offer" /\ ~(y = u /\ m \in Ends)
  <2>1. InTouch(y, x) => InTouch(y, x)'
    BY <1>18, <1>23
  <2>2. HasOffer(wire[x][y]) => HasOffer(wire[x][y])'
    BY <1>4, <1>5, <1>23 DEF q
  <2>3. QED
    BY <1>16, <1>19, <1>20, <1>23, <2>1, <2>2, StillHears
<1>24. CASE x = v /\ y = u /\ m \in Ends
  <2>1. m # "offer"
    BY <1>24 DEF Ends
  <2>2. /\ Settled(v)' = Settled(v) /\ Want(v)' = Want(v)
        /\ outgoingCall'[v] = outgoingCall[v] /\ callData'[v] = callData[v]
    BY <1>16, <2>1, SettledStays DEF PageFollows
  <2>3. ASSUME Settled(v), Want(v).peer = u
        PROVE  Over(Session(v)') /\ ~Session(v)'.isCallActive
    <3>1. mounted[v] /\ S.peer = u
      BY <2>3 DEF Settled, Shown, S
    <3>2. QED
      BY <1>7, <1>24, <3>1
  <2>4. CalleeHears(v, u)'
    <3>1. SUFFICES ASSUME outgoingCall'[v] = None, callData'[v] = u
                   PROVE  Settled(v)' /\ Over(Session(v)')
      BY DEF CalleeHears
    <3>2. Want(v) = [kind |-> "in", peer |-> u]
      BY <2>2, <3>1 DEF Want
    <3>3. Want(v) = Shown(v) /\ mounted[v]
      <4>1. Want(v) = Shown(v)
        BY <1>13, <1>24, <3>2
      <4>2. QED
        BY <3>2, <4>1 DEF Shown
    <3>4. Settled(v)
      BY <3>3 DEF Settled
    <3>5. QED
      BY <2>2, <2>3, <3>2, <3>4
  <2>5. CallerHears(v, u)'
    <3>1. SUFFICES ASSUME Settled(v)', Session(v)'.peer = u PROVE ~Session(v)'.isCallActive
      BY DEF CallerHears
    <3>2. Settled(v) /\ mounted[v] /\ S.peer = u
      BY <1>10, <2>2, <3>1 DEF Settled, Follows
    <3>3. Want(v).peer = u
      BY <3>2 DEF Settled, Shown, S
    <3>4. QED
      BY <2>3, <3>2, <3>3
  <2>6. QED
    BY <1>19, <1>24, <2>4, <2>5
<1>25. QED
  BY <1>21, <1>22, <1>23, <1>24

LEMMA DisconnectTalks ==
    ASSUME CallInv, TalkInv, NEW u \in Users, Disconnect(u)
    PROVE  TalkInv'
<1>1. /\ wire' = [v \in Users |-> [wire[v] EXCEPT ![u] = <<>>]]
      /\ missed' = (missed \/ \E v \in Users : wire[v][u] # <<>>)
      /\ UNCHANGED <<outgoingCall, callData, hooks, mounted>>
  BY DEF Disconnect, Miss
<1>2. \A w \in Users : PageFollows(w)
  BY <1>1, PageStays DEF TalkInv, Session
<1>3. ASSUME ~missed' PROVE ~missed /\ \A x, y \in Users : WireFollows(x, y)
  <2>1. ~missed /\ \A v \in Users : wire[v][u] = <<>>
    BY <1>1, <1>3
  <2>2. \A x, y \in Users : wire'[x][y] = wire[x][y]
    BY <1>1, <2>1 DEF CallInv, NetTypes
  <2>3. QED
    BY <2>1, <2>2, WireStays
<1>4. QED
  BY <1>2, <1>3, TalkStep

LEMMA PagesTalk ==
    ASSUME TalkInv, UNCHANGED <<outgoingCall, callData, hooks, mounted, wire, missed>>
    PROVE  TalkInv'
<1>1. \A w \in Users : PageFollows(w)
  BY PageStays DEF TalkInv, Session
<1>2. QED
  BY <1>1, TalkStep, WireUnchanged

LEMMA EndTalks ==
    ASSUME CallInv, TalkInv, NEW u \in Users, HangUpClick(u) \/ RejectClick(u) \/ Dismiss(u)
    PROVE  TalkInv'
<1>1. Settled(u) /\ UNCHANGED mounted
  BY DEF HangUpClick, RejectClick, Dismiss
<1>2. PICK m \in Ends : SayAndCleanup(u, m)
  BY DEF HangUpClick, RejectClick, Dismiss, Ends
<1>3. Session(u).kind \in {"out", "in"}
  BY <1>1, PageFacts, HookFields DEF Settled, HookTrue
<1>4. \/ OnEnd(u)
      \/ Session(u).kind = "out" /\ UNCHANGED <<outgoingCall, callData>>
  BY <1>3 DEF HangUpClick, RejectClick, Dismiss
<1>5. QED
  BY <1>1, <1>2, <1>4, SayTalks

LEMMA TalkInit == Init => TalkInv
<1> SUFFICES ASSUME Init PROVE TalkInv
  OBVIOUS
<1>1. \A u \in Users : ~mounted[u] /\ outgoingCall[u] = None /\ callData[u] = None
  BY DEF Init
<1>2. \A u, v \in Users : wire[u][v] = <<>> /\ Len(wire[u][v]) = 0
  BY EmptySeq DEF Init
<1>3. \A u, v \in Users : OfferMeant(u, v)
  BY <1>2 DEF OfferMeant
<1>4. \A u, v \in Users : CalleeHears(u, v) /\ CallerHears(u, v)
  BY <1>1 DEF CalleeHears, CallerHears, Settled
<1>5. QED
  BY <1>1, <1>3, <1>4 DEF TalkInv, PagesJoined, OwnPeer, Touching

LEMMA TalkInvKept == CallInv /\ TalkInv /\ [Next]_vars => TalkInv'
<1> SUFFICES ASSUME CallInv, TalkInv, [Next]_vars PROVE TalkInv'
  OBVIOUS
<1>1. CASE UNCHANGED vars
  <2>1. UNCHANGED <<outgoingCall, callData, hooks, mounted, wire, missed>>
    BY <1>1 DEF vars
  <2>2. QED
    BY <2>1, PagesTalk
<1>2. CASE Next
  <2>1. PICK u \in Users :
          \/ UserStep(u)
          \/ \E i \in DOMAIN hooks[u] : HookStep(u, i)
          \/ Render(u) \/ Dismiss(u) \/ IdleTimer(u)
          \/ \E v \in Users : Deliver(u, v)
          \/ Disconnect(u) \/ Reconnect(u)
    BY <1>2, Zenon DEF Next
  <2>2. ASSUME UserStep(u) PROVE TalkInv'
    BY <2>2, CallClickTalks, AnswerClickTalks, EndTalks, Zenon DEF UserStep
  <2>3. ASSUME NEW i \in DOMAIN hooks[u], HookStep(u, i) PROVE TalkInv'
    BY <2>3, HookStepTalks
  <2>4. ASSUME NEW v \in Users, Deliver(u, v) PROVE TalkInv'
    BY <2>4, DeliverTalks
  <2>5. ASSUME Reconnect(u) PROVE TalkInv'
    BY <2>5, PagesTalk DEF Reconnect
  <2>6. QED
    BY <2>1, <2>2, <2>3, <2>4, <2>5, RenderTalks, EndTalks, IdleTimerTalks, DisconnectTalks, Zenon
<1>3. QED
  BY <1>1, <1>2

\* When no signal is under way and React has rendered, nobody calls or talks to
\* a user whose page has no call, unless a signal has been missed: every end of
\* a session is said to the other user (onEnd and cleanupCall of the sessions,
\* the second hang-up of every dismissal included), for any number of users.
THEOREM NobodyIsLeftAloneHolds == Spec => []NobodyIsLeftAlone
<1>1. CallInv /\ TalkInv => NobodyIsLeftAlone
  <2> SUFFICES ASSUME CallInv, TalkInv, Quiet, ~missed, NEW u \in Users, LeftAlone(u)
               PROVE  FALSE
    BY DEF NobodyIsLeftAlone
  <2> DEFINE S == Session(u)
             v == S.peer
  <2>1. /\ mounted[u] /\ S.isCallActive /\ ~S.isIncomingCall /\ ~mounted[v]
        /\ S.kind \in {"out", "in"} /\ v \in Users
    BY PageFacts, HookFields DEF LeftAlone, HookTrue
  <2>2. Settled(u) /\ Want(u) = [kind |-> S.kind, peer |-> v] /\ Want(v) = Shown(v)
    BY <2>1 DEF Quiet, Settled, Shown
  <2>3. ~InTouch(v, u)
    <3>1. Want(v).peer = None
      BY <2>1, <2>2 DEF Shown
    <3>2. wire[v][u] = <<>> /\ Len(wire[v][u]) = 0
      BY <2>1, EmptySeq DEF Quiet
    <3>3. QED
      BY <3>1, <3>2 DEF InTouch, EndAfter
  <2>4. CalleeHears(u, v) /\ CallerHears(u, v) /\ Joined(S)
    BY <2>1 DEF TalkInv, Touching, PagesJoined
  <2>5. ~HasOffer(wire[u][v])
    <3>1. wire[u][v] = <<>> /\ Len(wire[u][v]) = 0
      BY <2>1, EmptySeq DEF Quiet
    <3>2. QED
      BY <3>1 DEF HasOffer
  <2>6. CASE S.kind = "out"
    BY <2>1, <2>2, <2>3, <2>4, <2>5, <2>6 DEF CallerHears
  <2>7. CASE S.kind = "in"
    <3>1. outgoingCall[u] = None /\ callData[u] = v
      BY <2>2, <2>7 DEF Want
    <3>2. ~Over(S)
      BY <2>1, <2>4, <2>7 DEF Joined, Over
    <3>3. QED
      BY <2>3, <2>4, <3>1, <3>2 DEF CalleeHears
  <2>8. QED
    BY <2>1, <2>6, <2>7
<1>2. QED
  BY <1>1, CallInvHolds, TalkInit, TalkInvKept, PTL DEF Spec
=============================================================================
