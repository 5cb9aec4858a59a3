-------------------------- MODULE DockerProxyProofs -------------------------
(* Proofs about DockerProxy, for any clients, paths and number of exchanges. *)
EXTENDS DockerProxy, SequenceTheorems, TLAPS

-----------------------------------------------------------------------------
(* The inductive invariant                                                 *)

\* Something is left to flush only while copyResponse copies: stop clears it before the
\* handler returns, and the goroutine of a timer that has fired finds nothing.
FlushInv == ~lateFlush /\ (flushPending => handler = "copyBuffer")

Ended == {"CloseWrite", "send", "done"}

Upgraded == {"<-errc", "<-errc again"}
Serving  == {"Director", "RoundTrip", "ModifyResponse", "copyResponse", "copyBuffer",
             "Hijack", "Write"}

\* What the two directions of an exchange keep their counts in.
FlowType ==
    /\ sent \in [Dirs -> Nat] /\ rcvd \in [Dirs -> Nat]
    /\ copier \in [Dirs -> {"none", "copy"} \cup Ended]
    /\ told \subseteq Dirs
    /\ handler \in Serving \cup Upgraded \cup {"returned"}

\* Only an upgrade has copiers, and they start when its handler begins to wait for them.
Shape ==
    /\ handler \in Serving => errc = <<>> /\ failed = {} /\ \A d \in Dirs : copier[d] = "none"
    /\ handler \in {"copyResponse", "copyBuffer"} => op \notin Upgrades
    /\ handler \in {"Hijack", "Write"} \cup Upgraded => op \in Upgrades
    /\ \A d \in Dirs : copier[d] # "none" => op \in Upgrades
    /\ \A d \in told : IF op \in Upgrades THEN copier[d] \in Ended ELSE handler = "returned"

\* Until a side has gone, nothing of an exchange that is served is closed or cancelled,
\* no copier has failed, and none is left copying by a handler that returns.
Whole ==
    gone = {} =>
        /\ failed = {} /\ errc \in {<<>>, <<"nil">>}
        /\ handler # "returned" => ~ctx /\ ~closeCh /\ conn # "closed" /\ backConn # "closed"
        /\ handler = "returned" => \A d \in Dirs : copier[d] # "copy"

\* The results that the handler has received or finds in the channel are those of the
\* copiers that are done.
DoneUp == copier["up"] = "done"
DoneDown == copier["down"] = "done"
Counted ==
    /\ errc \in {<<>>, <<"error">>, <<"nil">>}
    /\ handler = "<-errc" => IF errc = <<>> THEN ~DoneUp /\ ~DoneDown ELSE ~(DoneUp <=> DoneDown)
    /\ handler = "<-errc again" => IF errc = <<>> THEN ~(DoneUp <=> DoneDown) ELSE DoneUp /\ DoneDown

\* All that the source of a direction has sent has come, and it sends no more.
Complete(d) == Source(d) \in finished /\ rcvd[d] = sent[d]

\* A copier has ended for a reason, and so has what a side was told has ended.
CopiersTrue == \A d \in Dirs : copier[d] \in Ended => gone # {} \/ Complete(d)
ToldTrue == \A d \in told : op = "logs" => Complete(d)

EndsInv == FlowType /\ Shape /\ Whole /\ Counted /\ CopiersTrue /\ ToldTrue

-----------------------------------------------------------------------------
(* Late flushes                                                            *)

\* Every step keeps FlushInv: whichever way a handler returns, nothing is left to flush.
LEMMA FlushStep == FlushInv /\ [Next]_vars => FlushInv'
<1> SUFFICES ASSUME FlushInv, [Next]_vars PROVE FlushInv'
  OBVIOUS
<1> USE DEF FlushInv, body
<1>1. ASSUME NEW c \in Clients, NEW o \in Ops, NEW p, Request(c, o, p) PROVE FlushInv'
  BY <1>1 DEF Request
<1>2. ASSUME NEW d \in Dirs, Send(d) \/ Finish(d) \/ Copier(d) PROVE FlushInv'
  BY <1>2 DEF Send, Finish, Copier, Copy, CopierEnds, CloseWrite, SendResult
<1>3. ASSUME NEW s \in {"client", "daemon"}, Go(s) PROVE FlushInv'
  BY <1>3 DEF Go
<1>4. CASE Director \/ RoundTrip \/ RoundTripFails \/ ModifyResponse \/ ModifyResponseFails
  BY <1>4 DEF Director, RoundTrip, RoundTripFails, ModifyResponse, ModifyResponseFails, Quit
<1>5. CASE CopyResponse \/ CopyBuffer
  BY <1>5 DEF CopyResponse, CopyBuffer
<1>6. CASE CopyEnds \/ CopyFails
  BY <1>6 DEF CopyEnds, CopyFails, stop, Quit
<1>7. CASE TimerFires
  BY <1>7 DEF TimerFires
<1>10. CASE delayedFlush
  <2>1. ~(flushPending /\ handler = "returned")
    OBVIOUS
  <2>2. ~lateFlush' /\ ~flushPending'
    BY <1>10, <2>1, Zenon DEF delayedFlush
  <2> QED
    BY <2>2
<1>8. CASE Hijack \/ WriteUpgrade
  BY <1>8 DEF Hijack, WriteUpgrade
<1>12. CASE WriteUpgradeFails \/ ReceiveAgain
  <2>1. handler # "copyBuffer" /\ UNCHANGED body
    BY <1>12, Zenon DEF WriteUpgradeFails, ReceiveAgain, Unwind
  <2> QED
    BY <2>1
<1>11. CASE Receive
  BY <1>11 DEF Receive, Unwind, Quit
<1>9. CASE NotifyFires \/ CloserCloses \/ UNCHANGED vars
  BY <1>9 DEF NotifyFires, CloserCloses, vars
<1> QED
  BY <1>1, <1>2, <1>3, <1>4, <1>5, <1>6, <1>7, <1>8, <1>9, <1>10, <1>11, <1>12 DEF Next, Serve, Timer

\* maxLatencyWriter's timer never touches the response of a handler that has returned.
THEOREM NeverLateFlush == Spec => []NoLateFlush
<1>1. Init => FlushInv
  BY DEF Init, NoExchange, FlushInv
<1>2. FlushInv => NoLateFlush
  BY DEF FlushInv, NoLateFlush
<1> QED
  BY <1>1, <1>2, FlushStep, PTL DEF Spec

-----------------------------------------------------------------------------
(* Ends                                                                    *)

\* A URL that no pattern matches has no rewriter.
LEMMA NoMatch ==
    ASSUME NEW url, ~Behind(url, "containers", "json"), ~Within(url, "containers", "create"),
           ~Within(url, "services", "create"), ~Update(url), ~Below(url, "services"),
           ~(\E i \in DOMAIN url : url[i] = "tasks")
    PROVE  getRewriter(url) = "none"
<1> DEFINE m == rewriteMappings(url)
<1>1. DOMAIN m = 1..6 /\ \A i \in 1..6 : m[i][1] = FALSE
  BY DEF rewriteMappings
<1> HIDE DEF m
<1>2. {i \in DOMAIN m : m[i][1]} = {}
  BY <1>1
<1> QED
  BY <1>2 DEF getRewriter, m

\* The URL of a container's logs matches none: nothing reads that body but the copy.
LEMMA LogsNotRewritten == getRewriter(Url["logs"]) = "none"
<1> DEFINE url == <<"containers", "web", "logs">>
<1>1. Url["logs"] = url /\ Len(url) = 3 /\ DOMAIN url = 1..3
      /\ url[1] = "containers" /\ url[2] = "web" /\ url[3] = "logs"
  BY DEF Url
<1> HIDE DEF url
<1>2. \A i \in 1..3 : url[i] \notin {"json", "create", "services", "tasks"}
  BY <1>1
<1>3. ~Behind(url, "containers", "json") /\ ~Within(url, "containers", "create")
  BY <1>1, <1>2 DEF Behind, Within
<1>4. ~Within(url, "services", "create") /\ ~Update(url) /\ ~Below(url, "services")
  BY <1>1, <1>2 DEF Within, Update, Below
<1>5. ~(\E i \in DOMAIN url : url[i] = "tasks")
  BY <1>1, <1>2
<1> QED
  BY <1>1, <1>3, <1>4, <1>5, NoMatch

\* Nor does that of the list of services, which has nothing behind "services".
LEMMA ServicesNotRewritten == getRewriter(Url["services"]) = "none"
<1> DEFINE url == <<"services">>
<1>1. Url["services"] = url /\ Len(url) = 1 /\ DOMAIN url = 1..1 /\ url[1] = "services"
  BY DEF Url
<1> HIDE DEF url
<1>2. ~Behind(url, "containers", "json") /\ ~Within(url, "containers", "create")
  BY <1>1 DEF Behind, Within
<1>3. ~Within(url, "services", "create") /\ ~Update(url) /\ ~Below(url, "services")
  BY <1>1 DEF Within, Update, Below
<1>4. ~(\E i \in DOMAIN url : url[i] = "tasks")
  BY <1>1
<1> QED
  BY <1>1, <1>2, <1>3, <1>4, NoMatch

\* A channel that holds one result, and is empty when it has been received.
LEMMA OneResult == \A x : Append(<<>>, x) = <<x>> /\ Head(<<x>>) = x /\ Tail(<<x>>) = <<>>
<1> TAKE x
<1>1. Append(<<>>, x) = <<x>>
  OBVIOUS
<1>2. <<>> \in Seq({x})
  OBVIOUS
<1> QED
  BY <1>1, <1>2, HeadTailAppend

\* A request starts from a clean slate.
LEMMA RequestEnds ==
    ASSUME NEW c \in Clients, NEW o \in Ops, NEW p, Request(c, o, p)
    PROVE  EndsInv'
BY DEF Request, EndsInv, FlowType, Shape, Whole, Counted, CopiersTrue, ToldTrue, Dirs, Serving,
   Upgraded, Ended

\* What the two sides do: a source that has ended its stream sends no more, and one that
\* goes relieves the proxy of everything.
LEMMA SidesEnds ==
    ASSUME EndsInv
    PROVE  /\ \A d \in Dirs : Send(d) \/ Finish(d) => EndsInv'
           /\ \A s \in {"client", "daemon"} : Go(s) => EndsInv'
<1> USE DEF EndsInv, request, daemon, flow, copiers, sockets
<1>1. ASSUME NEW d \in Dirs, Send(d) PROVE EndsInv'
  <2>1. sent' \in [Dirs -> Nat] /\ \A e \in Dirs : Source(e) \in finished => sent'[e] = sent[e]
    BY <1>1 DEF Send, Speaks, FlowType
  <2>2. FlowType'
    BY <1>1, <2>1 DEF Send, FlowType
  <2>3. Shape' /\ Whole' /\ Counted'
    BY <1>1 DEF Send, Shape, Whole, Counted, DoneUp, DoneDown
  <2>4. \A e \in Dirs : Complete(e) => Complete(e)'
    BY <1>1, <2>1 DEF Send, Complete
  <2>5. CopiersTrue' /\ ToldTrue'
    BY <1>1, <2>4 DEF Send, CopiersTrue, ToldTrue, FlowType
  <2> QED
    BY <2>2, <2>3, <2>5
<1>2. ASSUME UNCHANGED <<request, handler, ctx, sent, flow, copiers, sockets>>,
             finished \subseteq finished', gone \subseteq gone'
      PROVE  EndsInv'
  BY <1>2 DEF FlowType, Shape, Whole, Counted, CopiersTrue, ToldTrue, Complete, DoneUp, DoneDown
<1> QED
  BY <1>1, <1>2 DEF Finish, Go

\* Serving an answer that is no upgrade: no copier exists, and the client is told of the
\* end of a log only when all of it has come.
LEMMA ServeEnds ==
    ASSUME EndsInv,
           \/ Director \/ RoundTrip \/ RoundTripFails \/ ModifyResponse \/ ModifyResponseFails
           \/ CopyResponse \/ CopyBuffer \/ CopyEnds \/ CopyFails
    PROVE  EndsInv'
<1> USE DEF EndsInv, request, daemon, body, ends, flow, copiers, sockets, FlowType, Shape, Whole,
            Counted, CopiersTrue, ToldTrue, Complete, Ended, Upgraded, Serving, Upgrades, Dirs,
            Quit, Source
<1>1. CASE Director
  BY <1>1 DEF Director
<1>7. CASE CopyResponse
  <2>1. handler = "copyResponse" /\ handler' = "copyBuffer"
        /\ UNCHANGED <<request, ctx, ends, flow, copiers, sockets>>
    BY <1>7 DEF CopyResponse
  <2> QED
    BY <2>1
<1>2. CASE RoundTrip
  BY <1>2 DEF RoundTrip
<1>3. CASE RoundTripFails \/ ModifyResponseFails \/ CopyFails
  BY <1>3 DEF RoundTripFails, ModifyResponseFails, CopyFails
<1>4. CASE ModifyResponse
  BY <1>4 DEF ModifyResponse
<1>5. CASE CopyBuffer
  BY <1>5 DEF CopyBuffer
<1>6. CASE CopyEnds
  <2>1. told' = told \cup {"down"} /\ UNCHANGED <<op, ends, rcvd, copiers>> /\ handler' = "returned"
    BY <1>6 DEF CopyEnds
  <2>2. op \notin Upgrades /\ told = {}
    BY <1>6 DEF CopyEnds
  <2>3. op = "logs" => "daemon" \in finished /\ rcvd["down"] = sent["down"]
    BY <1>6, LogsNotRewritten DEF CopyEnds
  <2>4. FlowType' /\ Shape' /\ Whole' /\ Counted' /\ CopiersTrue'
    BY <1>6, <2>1, <2>2 DEF CopyEnds
  <2>5. ToldTrue'
    BY <2>1, <2>2, <2>3
  <2> QED
    BY <2>4, <2>5
<1> QED
  BY <1>1, <1>2, <1>3, <1>4, <1>5, <1>6, <1>7

\* What an upgrade's handler does: it returns when both copiers are done, or one has
\* failed, and then a side has gone.
LEMMA UpgradeEnds ==
    ASSUME EndsInv, Hijack \/ WriteUpgrade \/ WriteUpgradeFails \/ Receive \/ ReceiveAgain
    PROVE  EndsInv'
<1> USE DEF EndsInv, request, daemon, body, ends, flow, copiers, sockets, FlowType, Shape, Whole,
            Counted, CopiersTrue, ToldTrue, Complete, Ended, Upgraded, Serving, Upgrades, Dirs,
            DoneUp, DoneDown, Quit, Unwind
<1>1. CASE Hijack
  BY <1>1 DEF Hijack
<1>2. CASE WriteUpgrade
  BY <1>2 DEF WriteUpgrade
<1>3. CASE WriteUpgradeFails
  BY <1>3 DEF WriteUpgradeFails
<1>4. CASE Receive \/ ReceiveAgain
  <2>1. (errc = <<"error">> \/ errc = <<"nil">>) /\ errc' = <<>> /\ op \in Upgrades
    <3>1. handler \in Upgraded /\ errc # <<>> /\ errc' = Tail(errc)
      BY <1>4 DEF Receive, ReceiveAgain
    <3>2. errc = <<"error">> \/ errc = <<"nil">>
      BY <3>1
    <3>4. errc' = <<>>
      BY <3>1, <3>2, OneResult, Zenon
    <3>5. op \in Upgrades
      BY <3>1
    <3> QED
      BY <3>2, <3>4, <3>5
  <2>2. UNCHANGED <<request, ends, flow, copier, failed, backConn>>
    BY <1>4 DEF Receive, ReceiveAgain
  <2>3. CASE Receive /\ errc = <<"nil">>
    <3>2. Head(errc) = "nil"
      BY <2>3, OneResult, Zenon
    <3>1. handler = "<-errc" /\ handler' = "<-errc again" /\ UNCHANGED <<ctx, sockets>>
      BY <2>3, <3>2, Zenon DEF Receive
    <3> QED
      BY <2>1, <2>2, <2>3, <3>1
  <2>4. CASE Receive /\ errc = <<"error">>
    <3>1. handler = "<-errc" /\ handler' = "returned" /\ gone # {}
      BY <2>4 DEF Receive
    <3> QED
      BY <2>1, <2>2, <3>1
  <2>5. CASE ReceiveAgain
    <3>1. handler = "<-errc again" /\ handler' = "returned" /\ \A d \in Dirs : copier[d] = "done"
      BY <2>5 DEF ReceiveAgain
    <3> QED
      BY <2>1, <2>2, <3>1
  <2> QED
    BY <1>4, <2>1, <2>3, <2>4, <2>5
<1> QED
  BY <1>1, <1>2, <1>3, <1>4

\* What a copier does: it meets an error only when a side has gone.
LEMMA CopierEndsInv ==
    ASSUME EndsInv, NEW d \in Dirs, Copier(d)
    PROVE  EndsInv'
<1> USE DEF EndsInv, request, daemon, body, ends, copiers, sockets
<1>0. d \in Dirs /\ copier[d] # "none" /\ op \in Upgrades /\ handler \in Upgraded \cup {"returned"}
  BY DEF Copier, Copy, CopierEnds, CloseWrite, SendResult, Shape, FlowType
<1>1. CASE Copy(d)
  <2>1. rcvd' \in [Dirs -> Nat] /\ \A e \in Dirs : e # d => rcvd'[e] = rcvd[e]
    <3>1. PICK n \in rcvd[d] + 1 .. sent[d] : rcvd' = [rcvd EXCEPT ![d] = n]
      BY <1>1 DEF Copy
    <3>2. n \in Nat
      BY <3>1 DEF FlowType
    <3> QED
      BY <3>1, <3>2 DEF FlowType
  <2>2. FlowType' /\ Shape' /\ Whole' /\ Counted'
    BY <1>1, <2>1 DEF Copy, FlowType, Shape, Whole, Counted, DoneUp, DoneDown
  <2>3. CopiersTrue'
    BY <1>1, <2>1 DEF Copy, CopiersTrue, Complete, Ended
  <2>4. ToldTrue'
    BY <1>0, <1>1 DEF Copy, ToldTrue, Upgrades
  <2> QED
    BY <2>2, <2>3, <2>4
<1>2. CASE CopierEnds(d, TRUE)
  <2>1. gone # {}
    BY <1>0, <1>2 DEF CopierEnds, Severed, Source, Target, Whole, Upgraded
  <2>2. /\ copier' = [copier EXCEPT ![d] = "CloseWrite"] /\ copier[d] = "copy"
        /\ UNCHANGED <<request, handler, ends, flow, errc>>
    BY <1>2 DEF CopierEnds
  <2>3. FlowType' /\ Shape'
    BY <1>0, <2>2 DEF FlowType, Shape, Ended, Upgraded, Serving, flow
  <2>4. Whole' /\ Counted' /\ CopiersTrue' /\ ToldTrue'
    BY <2>1, <2>2 DEF Whole, Counted, CopiersTrue, ToldTrue, Complete, DoneUp, DoneDown, FlowType, flow, Dirs
  <2> QED
    BY <2>3, <2>4
<1>3. CASE CopierEnds(d, FALSE)
  <2>1. Complete(d)
    BY <1>3 DEF CopierEnds, Complete
  <2>2. /\ copier' = [copier EXCEPT ![d] = "CloseWrite"] /\ copier[d] = "copy"
        /\ UNCHANGED <<request, handler, ctx, ends, flow, failed, errc, sockets>>
    BY <1>3 DEF CopierEnds
  <2>3. FlowType' /\ Shape'
    BY <1>0, <2>2 DEF FlowType, Shape, Ended, Upgraded, Serving, flow
  <2>4. Whole' /\ Counted' /\ CopiersTrue' /\ ToldTrue'
    BY <2>1, <2>2 DEF Whole, Counted, CopiersTrue, ToldTrue, Complete, DoneUp, DoneDown, FlowType, flow, Dirs
  <2> QED
    BY <2>3, <2>4
<1>4. CASE CloseWrite(d)
  <2>1. /\ copier' = [copier EXCEPT ![d] = "send"] /\ copier[d] = "CloseWrite"
        /\ told' = told \cup {d}
        /\ UNCHANGED <<request, handler, ctx, ends, rcvd, failed, errc, sockets>>
    BY <1>4 DEF CloseWrite
  <2>2. FlowType' /\ Shape'
    BY <1>0, <2>1 DEF FlowType, Shape, Ended, Upgraded, Serving
  <2>3. Whole' /\ Counted' /\ CopiersTrue'
    BY <2>1 DEF Whole, Counted, CopiersTrue, Complete, DoneUp, DoneDown, FlowType, Dirs, Ended
  <2>4. ToldTrue'
    BY <1>0, <2>1 DEF ToldTrue, Upgrades
  <2> QED
    BY <2>2, <2>3, <2>4
<1>5. CASE SendResult(d)
  <2>1. /\ copier' = [copier EXCEPT ![d] = "done"] /\ copier[d] = "send" /\ errc = <<>>
        /\ UNCHANGED <<request, handler, ctx, ends, flow, failed, sockets>>
    BY <1>5 DEF SendResult
  <2>2. (d \in failed /\ errc' = <<"error">>) \/ (d \notin failed /\ errc' = <<"nil">>)
    <3>1. errc' = Append(<<>>, IF d \in failed THEN "error" ELSE "nil")
      BY <1>5 DEF SendResult
    <3> QED
      BY <3>1, OneResult, Zenon
  <2>3. FlowType' /\ Shape'
    BY <1>0, <2>1 DEF FlowType, Shape, Ended, Upgraded, Serving, flow
  <2>4. Whole' /\ CopiersTrue' /\ ToldTrue'
    BY <2>1, <2>2 DEF Whole, CopiersTrue, ToldTrue, Complete, FlowType, flow, Ended
  <2>5. errc' \in {<<"error">>, <<"nil">>} /\ errc' # <<>>
    BY <2>2
  <2>6. Counted'
    <3>1. handler' = handler /\ errc' # <<>> /\ (DoneUp \/ DoneDown)' /\ ~(d = "up" /\ DoneUp)
          /\ ~(d = "down" /\ DoneDown) /\ (d = "up" \/ d = "down")
      BY <2>1, <2>5 DEF FlowType, Dirs, DoneUp, DoneDown, request
    <3>2. (d = "up" => (DoneDown' <=> DoneDown) /\ DoneUp')
          /\ (d = "down" => (DoneUp' <=> DoneUp) /\ DoneDown')
      BY <2>1 DEF FlowType, Dirs, DoneUp, DoneDown
    <3>3. errc' \in {<<>>, <<"error">>, <<"nil">>}
      BY <2>5
    <3>4. handler = "<-errc" => ~DoneUp /\ ~DoneDown
      BY <2>1 DEF Counted
    <3>5. handler = "<-errc again" => ~(DoneUp <=> DoneDown)
      BY <2>1 DEF Counted
    <3> HIDE DEF EndsInv
    <3>6. handler' = "<-errc" => ~(DoneUp' <=> DoneDown')
      BY <3>1, <3>2, <3>4
    <3>7. handler' = "<-errc again" => DoneUp' /\ DoneDown'
      BY <3>1, <3>2, <3>5
    <3> QED
      BY <3>1, <3>3, <3>6, <3>7, Zenon DEF Counted
  <2> QED
    BY <2>3, <2>4, <2>6
<1> QED
  BY <1>1, <1>2, <1>3, <1>4, <1>5 DEF Copier

\* Every step keeps the invariant.
LEMMA EndsStep == EndsInv /\ [Next]_vars => EndsInv'
<1> SUFFICES ASSUME EndsInv, [Next]_vars PROVE EndsInv'
  OBVIOUS
<1>1. CASE Timer \/ UNCHANGED vars
  <2>1. UNCHANGED <<request, handler, ctx, ends, flow, copiers, sockets>>
    BY <1>1 DEF Timer, TimerFires, delayedFlush, vars
  <2> QED
    BY <2>1 DEF EndsInv, request, ends, flow, copiers, sockets, FlowType, Shape, Whole, Counted,
       CopiersTrue, ToldTrue, Complete, DoneUp, DoneDown
<1>2. CASE NotifyFires \/ CloserCloses
  BY <1>2 DEF NotifyFires, CloserCloses, EndsInv, request, ends, flow, copiers, sockets,
     FlowType, Shape, Whole, Counted, CopiersTrue, ToldTrue, Complete, DoneUp, DoneDown
<1> QED
  BY <1>1, <1>2, RequestEnds, SidesEnds, ServeEnds, UpgradeEnds, CopierEndsInv DEF Next, Serve

\* No side is told that a stream has ended before all of it has come and its source has
\* ended it, unless a side of an upgraded connection has gone.
THEOREM EndsAlwaysTrue == Spec => []EndsAreTrue
<1>1. Init => EndsInv
  BY DEF Init, NoExchange, EndsInv, FlowType, Shape, Whole, Counted, CopiersTrue, ToldTrue, Dirs,
     Serving, Upgraded, Ended
<1>2. EndsInv => EndsAreTrue
  BY DEF EndsInv, EndsAreTrue, Shape, CopiersTrue, ToldTrue, Complete, PassedOn, Upgrades, FlowType
<1> QED
  BY <1>1, <1>2, EndsStep, PTL DEF Spec

-----------------------------------------------------------------------------
(* Paths                                                                   *)

\* What a path is made of; the words of the roots are strings, which the provers do not know.
Segments == STRING \cup Clients \cup {"/", ":", "mnt", "host", "wsl"}

\* What a path begins with is found nowhere else in it.
Plain(p) == \A i \in 2 .. Len(p) : p[i] \notin {"/", ":"}

\* A file a client can name: not what the daemon's distribution has mounted for others, and
\* a drive has a letter.
Nameable(p) ==
    /\ p \in Seq(STRING) /\ p # <<>> /\ Plain(p)
    /\ ~StartsWith(p, HostRoot) /\ ~StartsWith(p, WslRoot)
    /\ p[1] = ":" => Len(p) > 1

\* What the daemon is told: the files of distributions are those of clients.
Told(p) ==
    /\ p \in Seq(Segments) /\ p # <<>> /\ Plain(p)
    /\ StartsWith(p, WslRoot) => p[4] \in Clients \ {"windows"}

Inner(q) == \A i \in DOMAIN q : q[i] \notin {"/", ":"}

\* A client is a machine, and has the name of one.
ClientsNamed == Clients \cap {"engine", "/", ":"} = {}

\* The two roots are three segments, and the third tells them apart.
LEMMA Roots ==
    /\ HostRoot \in Seq(Segments) /\ Len(HostRoot) = 3 /\ HostRoot[1] = "/" /\ HostRoot[3] = "host"
    /\ WslRoot \in Seq(Segments) /\ Len(WslRoot) = 3 /\ WslRoot[1] = "/" /\ WslRoot[3] = "wsl"
    /\ Plain(HostRoot) /\ Plain(WslRoot)
<1>1. {"/", "mnt", "host", "wsl"} \subseteq Segments
  BY DEF Segments
<1> QED
  BY <1>1 DEF HostRoot, WslRoot, Plain

\* What stands under a root, and nothing else, starts with it.
LEMMA UnderRoot ==
    ASSUME NEW root \in {HostRoot, WslRoot}, NEW q \in Seq(Segments), q # <<>>
    PROVE  /\ root \o q \in Seq(Segments) /\ root \o q # <<>>
           /\ StartsWith(root \o q, root) /\ From(root \o q, 4) = q
           /\ (root \o q)[4] = q[1] /\ (root \o q)[1] = "/" /\ (root \o q)[3] = root[3]
<1> DEFINE p == root \o q
<1>1. root \in Seq(Segments) /\ Len(root) = 3 /\ root[1] = "/"
  BY Roots
<1>2. Len(q) \in Nat \ {0}
  BY EmptySeq
<1>3. /\ p \in Seq(Segments) /\ Len(p) = 3 + Len(q)
      /\ \A i \in 1..3 : p[i] = root[i]
      /\ \A i \in 1..Len(q) : p[i + 3] = q[i]
  <2> HIDE DEF p
  <2>1. /\ p \in Seq(Segments) /\ Len(p) = Len(root) + Len(q)
        /\ \A i \in 1..Len(root) + Len(q) : p[i] = IF i <= Len(root) THEN root[i] ELSE q[i - Len(root)]
    BY <1>1, ConcatProperties, Zenon DEF p
  <2>2. \A i \in 1..Len(q) : i + 3 \in 1..(3 + Len(q)) /\ ~(i + 3 <= 3) /\ (i + 3) - 3 = i
    BY <1>2
  <2>3. \A i \in 1..3 : i \in 1..(3 + Len(q)) /\ i <= 3
    BY <1>2
  <2> QED
    BY <1>1, <2>1, <2>2, <2>3
<1> HIDE DEF p
<1>4. SubSeq(p, 1, 3) = root
  <2>1. SubSeq(p, 1, 3) \in Seq(Segments) /\ Len(SubSeq(p, 1, 3)) = 3
        /\ \A i \in 1..3 : SubSeq(p, 1, 3)[i] = p[i]
    BY <1>2, <1>3
  <2> QED
    BY <1>1, <1>3, <2>1, SeqEqual
<1>5. From(p, 4) = q
  <2> DEFINE t == SubSeq(p, 4, Len(p))
  <2>1. t \in Seq(Segments) /\ Len(t) = Len(q) /\ \A i \in 1..Len(q) : t[i] = p[i + 3]
    BY <1>2, <1>3
  <2> HIDE DEF t
  <2>2. t = q
    BY <1>2, <1>3, <2>1, SeqEqual
  <2> QED
    BY <2>2 DEF From, t
<1>6. p # <<>> /\ p[4] = q[1] /\ p[1] = "/" /\ p[3] = root[3]
  BY <1>1, <1>2, <1>3
<1> QED
  BY <1>1, <1>2, <1>3, <1>4, <1>5, <1>6 DEF p, StartsWith

LEMMA PlainUnderRoot ==
    ASSUME NEW root \in {HostRoot, WslRoot}, NEW q \in Seq(Segments), Inner(q)
    PROVE  Plain(root \o q)
<1> DEFINE p == root \o q
<1>1. root \in Seq(Segments) /\ Len(root) = 3 /\ Plain(root)
  BY Roots
<1> HIDE DEF p
<1>2. /\ Len(q) \in Nat /\ Len(p) = 3 + Len(q)
      /\ \A i \in 1..3 + Len(q) : p[i] = IF i <= 3 THEN root[i] ELSE q[i - 3]
  <2>1. /\ Len(p) = Len(root) + Len(q)
        /\ \A i \in 1..Len(root) + Len(q) : p[i] = IF i <= Len(root) THEN root[i] ELSE q[i - Len(root)]
    BY <1>1, ConcatProperties, Zenon DEF p
  <2> QED
    BY <1>1, <2>1
<1>3. ASSUME NEW i \in 2..Len(p) PROVE p[i] \notin {"/", ":"}
  <2>1. i \in 1..3 + Len(q) /\ (i <= 3 => i \in 2..3) /\ (~(i <= 3) => i - 3 \in 1..Len(q))
    BY <1>2
  <2>2. i <= 3 => root[i] \notin {"/", ":"}
    BY <1>1, <2>1 DEF Plain
  <2>3. ~(i <= 3) => q[i - 3] \notin {"/", ":"}
    BY <2>1 DEF Inner
  <2> QED
    BY <1>2, <2>1, <2>2, <2>3
<1> QED
  BY <1>3 DEF Plain, p

\* What starts with a root stands under it.
LEMMA StartsWithRoot ==
    ASSUME NEW root \in {HostRoot, WslRoot}, NEW p \in Seq(Segments), StartsWith(p, root)
    PROVE  /\ From(p, 4) \in Seq(Segments) /\ From(p, 4) # <<>> /\ From(p, 4)[1] = p[4]
           /\ p[1] = "/" /\ p[3] = root[3]
<1>1. Len(root) = 3 /\ root[1] = "/"
  BY Roots
<1>2. Len(p) > 3 /\ SubSeq(p, 1, 3) = root
  BY <1>1 DEF StartsWith
<1>3. SubSeq(p, 1, 3)[1] = p[1] /\ SubSeq(p, 1, 3)[3] = p[3]
  BY <1>2
<1> DEFINE t == SubSeq(p, 4, Len(p))
<1>4. t \in Seq(Segments) /\ Len(t) = Len(p) - 3 /\ t[1] = p[4]
  BY <1>2
<1> HIDE DEF t
<1>5. t # <<>>
  BY <1>2, <1>4
<1>6. p[1] = "/" /\ p[3] = root[3]
  BY <1>1, <1>2, <1>3
<1> QED
  BY <1>4, <1>5, <1>6 DEF From, t

\* A path starts with one of the roots at most, and one of a drive with none.
LEMMA OneRoot ==
    ASSUME NEW p \in Seq(Segments)
    PROVE  /\ StartsWith(p, HostRoot) => ~StartsWith(p, WslRoot)
           /\ p[1] # "/" => ~StartsWith(p, HostRoot) /\ ~StartsWith(p, WslRoot)
  BY Roots, StartsWithRoot

\* What the files under the roots are to the daemon.
LEMMA FilesUnderRoots ==
    ASSUME NEW q \in Seq(Segments), q # <<>>
    PROVE  /\ DaemonFile(HostRoot \o q) = <<"windows">> \o q
           /\ DaemonFile(WslRoot \o q) = q
<1> DEFINE h == HostRoot \o q
           w == WslRoot \o q
<1>1. StartsWith(h, HostRoot) /\ From(h, 4) = q /\ ~StartsWith(h, WslRoot)
  BY UnderRoot, OneRoot
<1>2. StartsWith(w, WslRoot) /\ From(w, 4) = q /\ ~StartsWith(w, HostRoot)
  BY UnderRoot, OneRoot
<1> HIDE DEF h, w
<1>3. DaemonFile(h) = <<"windows">> \o q
  <2>1. DaemonFile(h) = <<"windows">> \o From(h, 4)
    BY <1>1, Zenon DEF DaemonFile
  <2> QED
    BY <1>1, <2>1, Zenon
<1>4. DaemonFile(w) = q
  BY <1>2, Zenon DEF DaemonFile
<1> QED
  BY <1>3, <1>4 DEF h, w

\* The file a client means is the one the daemon takes.
LEMMA MapsToFile ==
    ASSUME ClientsNamed, NEW c \in Clients, NEW p, Nameable(p)
    PROVE  /\ Told(mapPath(p, c))
           /\ Valid(mapPath(p, c)) /\ ClientFile(p, c) # NoFile
                  => DaemonFile(mapPath(p, c)) = ClientFile(p, c)
<1>1. p \in Seq(Segments) /\ Told(p) /\ Len(p) \in Nat \ {0}
  BY EmptySeq DEF Nameable, Segments, Told
<1>2. mapPath(p, c) = IF p[1] = (IF c = "windows" THEN ":" ELSE "/")
                      THEN BasePath(c) \o Tail(p) ELSE p
  BY DEF Nameable, mapPath, BeginsWith
<1>3. Tail(p) \in Seq(Segments) /\ Len(Tail(p)) = Len(p) - 1 /\ Inner(Tail(p))
  BY <1>1 DEF Told, Plain, Inner
<1>4. CASE c = "windows" /\ p[1] = ":"
  <2>1. mapPath(p, c) = HostRoot \o Tail(p)
    BY <1>2, <1>4, Zenon DEF BasePath
  <2>5. Tail(p) # <<>>
    <3>1. Len(p) > 1
      BY <1>4, Zenon DEF Nameable
    <3>2. Len(Tail(p)) # 0
      BY <1>1, <1>3, <3>1
    <3> QED
      BY <3>2, EmptySeq
  <2>2. DaemonFile(mapPath(p, c)) = ClientFile(p, c)
    BY <1>3, <1>4, <2>1, <2>5, FilesUnderRoots DEF ClientFile
  <2>3. /\ HostRoot \o Tail(p) \in Seq(Segments) /\ HostRoot \o Tail(p) # <<>>
        /\ StartsWith(HostRoot \o Tail(p), HostRoot)
    BY <1>3, <2>5, UnderRoot, Zenon
  <2>4. Plain(HostRoot \o Tail(p)) /\ ~StartsWith(HostRoot \o Tail(p), WslRoot)
    BY <1>3, <2>3, PlainUnderRoot, OneRoot, Zenon
  <2> QED
    BY <2>1, <2>2, <2>3, <2>4, Zenon DEF Told
<1>5. CASE c # "windows" /\ p[1] = "/"
  <2> DEFINE q == <<c>> \o Tail(p)
  <2>1. q \in Seq(Segments) /\ q # <<>> /\ q[1] = c
    BY <1>3 DEF Segments
  <2>5. Inner(q)
    BY <1>3 DEF Inner, Segments, ClientsNamed
  <2>2. Append(WslRoot, c) \o Tail(p) = WslRoot \o q
    BY <1>3, Roots DEF Segments
  <2> HIDE DEF q
  <2>3. mapPath(p, c) = WslRoot \o q
    BY <1>2, <1>5, <2>2 DEF BasePath
  <2>4. DaemonFile(mapPath(p, c)) = ClientFile(p, c)
    BY <1>5, <2>1, <2>3, FilesUnderRoots DEF ClientFile, q
  <2> QED
    BY <1>5, <2>1, <2>3, <2>4, <2>5, UnderRoot, PlainUnderRoot DEF Told
<1>6. CASE ~(c = "windows" /\ p[1] = ":") /\ ~(c # "windows" /\ p[1] = "/")
  <2>1. mapPath(p, c) = p
    BY <1>2, <1>6
  <2> QED
    BY <1>1, <1>6, <2>1 DEF ClientFile, Valid
<1> QED
  BY <1>4, <1>5, <1>6

\* One segment in front is the first one, and the rest is its tail.
LEMMA TailOfOne ==
    ASSUME NEW x \in Segments, NEW q \in Seq(Segments)
    PROVE  <<x>> \o q \in Seq(Segments) /\ (<<x>> \o q)[1] = x /\ Tail(<<x>> \o q) = q
<1> DEFINE m == <<x>> \o q
<1>1. m \in Seq(Segments) /\ Len(m) = Len(q) + 1 /\ m[1] = x /\ \A i \in 1..Len(q) : m[i + 1] = q[i]
  OBVIOUS
<1> HIDE DEF m
<1>2. Tail(m) \in Seq(Segments) /\ Len(Tail(m)) = Len(q) /\ \A i \in 1..Len(q) : Tail(m)[i] = m[i + 1]
  BY <1>1
<1>3. Tail(m) = q
  BY <1>1, <1>2, SeqEqual
<1> QED
  BY <1>1, <1>3 DEF m

\* A path that is not absolute names no file at the daemon; mapPath only knows drives.
LEMMA NotAbsolute ==
    ASSUME NEW c, NEW t \in Seq(Segments), ~BeginsWith(t, "/")
    PROVE  /\ DaemonFile(t) = NoFile
           /\ mapPath(t, c) = IF c = "windows" /\ BeginsWith(t, ":") THEN HostRoot \o Tail(t) ELSE t
<1>1. ~StartsWith(t, HostRoot) /\ ~StartsWith(t, WslRoot)
  <2>1. CASE t = <<>>
    BY <2>1, Roots DEF StartsWith
  <2>2. CASE t # <<>>
    BY <2>2, OneRoot DEF BeginsWith
  <2> QED
    BY <2>1, <2>2
<1>2. DaemonFile(t) = NoFile
  BY <1>1, Zenon DEF DaemonFile
<1>3. mapPath(t, c) = IF c = "windows" /\ BeginsWith(t, ":") THEN HostRoot \o Tail(t) ELSE t
  BY <1>1, Zenon DEF mapPath, BasePath
<1> QED
  BY <1>2, <1>3

\* A file of a drive leads back in Windows, and nowhere in a distribution.
LEMMA DriveShown ==
    ASSUME NEW b \in Seq(Segments), StartsWith(b, HostRoot), NEW c
    PROVE  LET m == mapPath(b, c) IN
           /\ DaemonFile(m) = NoFile
           /\ DaemonFile(mapPath(m, c)) = IF c = "windows" THEN DaemonFile(b) ELSE NoFile
<1> DEFINE q == From(b, 4)
           m == <<":">> \o q
<1>1. q \in Seq(Segments) /\ q # <<>> /\ ~StartsWith(b, WslRoot)
  BY StartsWithRoot, OneRoot
<1>2. mapPath(b, c) = m
  BY <1>1, Zenon DEF mapPath
<1>3. DaemonFile(b) = <<"windows">> \o q
  BY <1>1, Zenon DEF DaemonFile
<1> HIDE DEF q
<1>4. m \in Seq(Segments) /\ m # <<>> /\ m[1] = ":" /\ Tail(m) = q
  <2>1. ":" \in Segments
    BY DEF Segments
  <2>2. m \in Seq(Segments) /\ m[1] = ":" /\ Tail(m) = q
    BY <1>1, <2>1, TailOfOne
  <2> QED
    BY <1>1, <2>2
<1> HIDE DEF m
<1>5. BeginsWith(m, ":") /\ ~BeginsWith(m, "/")
  BY <1>4 DEF BeginsWith
<1>6. DaemonFile(m) = NoFile /\ mapPath(m, c) = IF c = "windows" THEN HostRoot \o q ELSE m
  BY <1>4, <1>5, NotAbsolute
<1>7. DaemonFile(HostRoot \o q) = DaemonFile(b)
  BY <1>1, <1>3, FilesUnderRoots
<1> QED
  BY <1>2, <1>6, <1>7

\* A file of a distribution is shown as a path that names nothing, and stays so.
LEMMA DistributionShown ==
    ASSUME NEW b \in Seq(Segments), Plain(b), StartsWith(b, WslRoot), NEW c
    PROVE  LET t == mapPath(b, c) IN DaemonFile(t) = NoFile /\ mapPath(t, c) = t
<1> DEFINE t == SubSeq(b, 5, Len(b))
<1>1. ~StartsWith(b, HostRoot) /\ Len(b) > 3
  BY OneRoot, Roots DEF StartsWith
<1>2. mapPath(b, c) = t
  BY <1>1, Zenon DEF mapPath, From
<1>3. t \in Seq(Segments) /\ (t # <<>> => Len(b) >= 5 /\ t[1] = b[5])
  <2>1. CASE Len(b) >= 5
    BY <1>1, <2>1
  <2>2. CASE Len(b) < 5
    <3>1. Len(b) \in Int
      OBVIOUS
    <3> QED
      BY <2>2, <3>1, SubSeqEmpty
  <2> QED
    BY <1>1, <2>1, <2>2
<1> HIDE DEF t
<1>4. ~BeginsWith(t, "/") /\ ~BeginsWith(t, ":")
  BY <1>3 DEF BeginsWith, Plain
<1> QED
  BY <1>2, <1>3, <1>4, NotAbsolute

\* What a Windows client is shown of a file of Windows or of the daemon's own leads back.
LEMMA ShownReturns ==
    ASSUME NEW b, Told(b), ClientsNamed, DaemonFile(b)[1] \in {"windows", "engine"}
    PROVE  DaemonFile(mapPath(mapPath(b, "windows"), "windows")) = DaemonFile(b)
<1>1. b \in Seq(Segments) /\ b # <<>>
  BY DEF Told
<1>2. CASE StartsWith(b, HostRoot)
  BY <1>1, <1>2, DriveShown
<1>3. CASE StartsWith(b, WslRoot)
  <2>1. DaemonFile(b) = From(b, 4)
    BY <1>1, <1>3, OneRoot, Zenon DEF DaemonFile
  <2>2. DaemonFile(b)[1] \in Clients \ {"windows"}
    BY <1>1, <1>3, <2>1, StartsWithRoot DEF Told
  <2> QED
    BY <2>2 DEF ClientsNamed
<1>4. CASE ~StartsWith(b, HostRoot) /\ ~StartsWith(b, WslRoot)
  <2>1. BeginsWith(b, "/")
    <3>1. ~BeginsWith(b, "/") => DaemonFile(b) = <<"none">>
      BY <1>4, Zenon DEF DaemonFile, NoFile
    <3> QED
      BY <3>1
  <2>2. ~BeginsWith(b, ":")
    BY <2>1 DEF BeginsWith
  <2>3. mapPath(b, "windows") = b
    BY <1>4, <2>2, Zenon DEF mapPath
  <2> QED
    BY <2>3
<1> QED
  BY <1>2, <1>3, <1>4

\* What any client is shown of any file leads back or nowhere, translated or not; only a
\* distribution that is shown the path of the daemon's own takes it for one of its own.
LEMMA ShownNeverMisleads ==
    ASSUME NEW b, Told(b), Valid(b), ClientsNamed, NEW c \in Clients, NEW r,
           \/ r = mapPath(b, c)
           \/ r = b /\ (c # "windows" => DaemonFile(b)[1] # "engine")
    PROVE  DaemonFile(mapPath(r, c)) \in {DaemonFile(b), NoFile}
<1>1. b \in Seq(Segments) /\ b # <<>> /\ Plain(b)
  BY DEF Told
<1>2. CASE StartsWith(b, HostRoot)
  BY <1>1, <1>2, DriveShown
<1>3. CASE StartsWith(b, WslRoot)
  BY <1>1, <1>3, DistributionShown
<1>4. CASE ~StartsWith(b, HostRoot) /\ ~StartsWith(b, WslRoot)
  <2>1. ~BeginsWith(b, ":")
    BY DEF BeginsWith, Valid
  <2>2. CASE c = "windows" \/ ~BeginsWith(b, "/")
    <3>1. mapPath(b, c) = b
      BY <1>4, <2>1, <2>2, Zenon DEF mapPath
    <3> QED
      BY <3>1
  <2>3. CASE c # "windows" /\ BeginsWith(b, "/")
    <3> DEFINE q == <<c>> \o Tail(b)
               w == WslRoot \o q
    <3>1. mapPath(b, c) = Append(WslRoot, c) \o Tail(b)
      BY <1>4, <2>3, Zenon DEF mapPath, BasePath
    <3>2. Tail(b) \in Seq(Segments) /\ Inner(Tail(b))
      BY <1>1 DEF Plain, Inner
    <3>3. q \in Seq(Segments) /\ q # <<>> /\ Inner(q)
      BY <3>2 DEF Segments, Inner, ClientsNamed
    <3>4. mapPath(b, c) = w
      <4>1. Append(WslRoot, c) \o Tail(b) = w
        BY <3>2, Roots DEF Segments
      <4> QED
        BY <3>1, <4>1, Zenon
    <3>5. w \in Seq(Segments) /\ Plain(w) /\ StartsWith(w, WslRoot)
      BY <3>3, UnderRoot, PlainUnderRoot
    <3>6. DaemonFile(mapPath(w, c)) = NoFile
      BY <3>5, DistributionShown
    <3>7. DaemonFile(b)[1] = "engine"
      <4>1. DaemonFile(b) = <<"engine">> \o Tail(b)
        BY <1>4, <2>3, Zenon DEF DaemonFile
      <4>2. (<<"engine">> \o Tail(b))[1] = "engine"
        BY <3>2
      <4> QED
        BY <4>1, <4>2
    <3> HIDE DEF w
    <3> QED
      BY <2>3, <3>4, <3>6, <3>7
  <2> QED
    BY <2>2, <2>3
<1> QED
  BY <1>2, <1>3, <1>4

-----------------------------------------------------------------------------
(* Bind mounts                                                             *)

\* The first pattern that matches has the rewriter.
LEMMA FirstMatch ==
    ASSUME NEW url, NEW i \in 1..6, rewriteMappings(url)[i][1],
           \A j \in 1..6 : j < i => ~rewriteMappings(url)[j][1]
    PROVE  getRewriter(url) = rewriteMappings(url)[i][2]
<1> DEFINE m == rewriteMappings(url)
           hits == {j \in DOMAIN m : m[j][1]}
<1>1. DOMAIN m = 1..6
  BY DEF rewriteMappings
<1> HIDE DEF m
<1>2. i \in hits /\ \A j \in hits : j \in 1..6 /\ i <= j
  BY <1>1 DEF m
<1>3. (CHOOSE k \in hits : \A j \in hits : k <= j) = i
  <2>1. \A k \in hits : (\A j \in hits : k <= j) => k = i
    BY <1>2
  <2> HIDE DEF hits
  <2>2. \E k \in hits : \A j \in hits : k <= j
    BY <1>2
  <2> QED
    BY <2>1, <2>2
<1> QED
  BY <1>2, <1>3 DEF getRewriter, m

\* The rewriter of each URL that has one.
LEMMA Rewriters ==
    /\ getRewriter(Url["create"]) = "container" /\ getRewriter(Url["inspect"]) = "container"
    /\ getRewriter(Url["list"]) = "container" /\ getRewriter(Url["serviceCreate"]) = "serviceSpec"
    /\ getRewriter(Url["service"]) = "service" /\ getRewriter(Url["tasks"]) = "task"
<1> DEFINE match(url, i) == rewriteMappings(url)[i][1]
<1>1. /\ Url["create"] = <<"containers", "create">> /\ Url["inspect"] = <<"containers", "web", "json">>
      /\ Url["list"] = <<"containers", "json">> /\ Url["serviceCreate"] = <<"services", "create">>
      /\ Url["service"] = <<"services", "web">> /\ Url["tasks"] = <<"tasks">>
  BY DEF Url
<1>2. \A url : /\ match(url, 1) = Behind(url, "containers", "json")
               /\ match(url, 2) = Within(url, "containers", "create")
               /\ match(url, 3) = Within(url, "services", "create")
               /\ match(url, 4) = Update(url) /\ match(url, 5) = Below(url, "services")
               /\ match(url, 6) = \E i \in DOMAIN url : url[i] = "tasks"
               /\ rewriteMappings(url)[1][2] = "container" /\ rewriteMappings(url)[2][2] = "container"
               /\ rewriteMappings(url)[3][2] = "serviceSpec" /\ rewriteMappings(url)[5][2] = "service"
               /\ rewriteMappings(url)[6][2] = "task"
  BY DEF rewriteMappings
<1> HIDE DEF match
<1>3. ASSUME NEW url
      PROVE  /\ match(url, 1) => getRewriter(url) = "container"
             /\ ~match(url, 1) /\ match(url, 2) => getRewriter(url) = "container"
             /\ ~match(url, 1) /\ ~match(url, 2) /\ match(url, 3) => getRewriter(url) = "serviceSpec"
             /\ ~match(url, 1) /\ ~match(url, 2) /\ ~match(url, 3) /\ ~match(url, 4) =>
                    /\ match(url, 5) => getRewriter(url) = "service"
                    /\ ~match(url, 5) /\ match(url, 6) => getRewriter(url) = "task"
  <2>1. ASSUME NEW i \in 1..6, match(url, i), \A j \in 1..6 : j < i => ~match(url, j)
        PROVE  getRewriter(url) = rewriteMappings(url)[i][2]
    BY <2>1, FirstMatch DEF match
  <2>2. match(url, 1) => getRewriter(url) = rewriteMappings(url)[1][2]
    BY <2>1
  <2>3. ~match(url, 1) /\ match(url, 2) => getRewriter(url) = rewriteMappings(url)[2][2]
    BY <2>1
  <2>4. ~match(url, 1) /\ ~match(url, 2) /\ match(url, 3) => getRewriter(url) = rewriteMappings(url)[3][2]
    BY <2>1
  <2>5. ~match(url, 1) /\ ~match(url, 2) /\ ~match(url, 3) /\ ~match(url, 4) /\ match(url, 5)
            => getRewriter(url) = rewriteMappings(url)[5][2]
    BY <2>1
  <2>6. ~match(url, 1) /\ ~match(url, 2) /\ ~match(url, 3) /\ ~match(url, 4) /\ ~match(url, 5)
          /\ match(url, 6) => getRewriter(url) = rewriteMappings(url)[6][2]
    BY <2>1
  <2> QED
    BY <1>2, <2>2, <2>3, <2>4, <2>5, <2>6, Zenon
<1>4. getRewriter(Url["create"]) = "container"
  <2>1. ~Behind(Url["create"], "containers", "json") /\ Within(Url["create"], "containers", "create")
    BY <1>1 DEF Behind, Within
  <2> QED
    BY <1>2, <1>3, <2>1, Zenon
<1>5. getRewriter(Url["inspect"]) = "container"
  <2>1. Behind(Url["inspect"], "containers", "json")
    BY <1>1 DEF Behind
  <2> QED
    BY <1>2, <1>3, <2>1, Zenon
<1>6. getRewriter(Url["list"]) = "container"
  <2>1. Behind(Url["list"], "containers", "json")
    BY <1>1 DEF Behind
  <2> QED
    BY <1>2, <1>3, <2>1, Zenon
<1>7. getRewriter(Url["serviceCreate"]) = "serviceSpec"
  <2> DEFINE u == Url["serviceCreate"]
  <2>1. ~Behind(u, "containers", "json") /\ ~Within(u, "containers", "create") /\ Within(u, "services", "create")
    BY <1>1 DEF Behind, Within
  <2> QED
    BY <1>2, <1>3, <2>1, Zenon
<1>8. getRewriter(Url["service"]) = "service"
  <2> DEFINE u == Url["service"]
  <2>1. ~Behind(u, "containers", "json") /\ ~Within(u, "containers", "create")
        /\ ~Within(u, "services", "create") /\ ~Update(u) /\ Below(u, "services")
    BY <1>1 DEF Behind, Within, Update, Below
  <2> QED
    BY <1>2, <1>3, <2>1, Zenon
<1>9. getRewriter(Url["tasks"]) = "task"
  <2> DEFINE u == Url["tasks"]
  <2>1. ~Behind(u, "containers", "json") /\ ~Within(u, "containers", "create")
        /\ ~Within(u, "services", "create") /\ ~Update(u) /\ ~Below(u, "services")
    BY <1>1 DEF Behind, Within, Update, Below
  <2>2. \E i \in DOMAIN u : u[i] = "tasks"
    BY <1>1
  <2> QED
    BY <1>2, <1>3, <2>1, <2>2, Zenon
<1> QED
  BY <1>4, <1>5, <1>6, <1>7, <1>8, <1>9

\* The requests that create are translated, and so are the responses but the list of services.
LEMMA Translated ==
    ASSUME NEW p, NEW c
    PROVE  /\ \A o \in {"create", "serviceCreate"} : RewriteBody(p, Asks[o], Url[o], c) = mapPath(p, c)
           /\ \A o \in DOMAIN Shows \ {"services"} : RewriteBody(p, Shows[o], Url[o], c) = mapPath(p, c)
           /\ RewriteBody(p, Shows["services"], Url["services"], c) = p
<1>1. ASSUME NEW o \in {"create", "serviceCreate"} PROVE Asks[o] \in Rewrites(getRewriter(Url[o]))
  BY Rewriters DEF Asks, Rewrites
<1>2. ASSUME NEW o \in DOMAIN Shows \ {"services"} PROVE Shows[o] \in Rewrites(getRewriter(Url[o]))
  BY Rewriters DEF Shows, Rewrites
<1>3. Rewrites(getRewriter(Url["services"])) = {}
  BY ServicesNotRewritten DEF Rewrites
<1> QED
  BY <1>1, <1>2, <1>3 DEF RewriteBody

\* A source that an operation gives to the daemon: when it creates, the file that is meant.
Gives(p, file, by) ==
    /\ Told(p)
    /\ by \in {"create", "serviceCreate"} /\ Valid(p) /\ file # NoFile => DaemonFile(p) = file

Bound(b) == Valid(b.path) /\ Gives(b.path, b.file, b.by)

\* The source of a request is the client's until the Director has translated it; what the
\* daemon has is what it was given, and what is shown is translated back.
BindInv ==
    /\ handler \in {"Director", "RoundTrip", "ModifyResponse"} => client \in Clients
    /\ handler = "Director" /\ asked # None =>
           /\ op \in DOMAIN Asks /\ Nameable(asked.path)
           /\ asked = [path |-> asked.path, file |-> ClientFile(asked.path, client)]
    /\ handler = "RoundTrip" /\ asked # None => Gives(asked.path, asked.file, op)
    /\ DOMAIN bind = {"container", "service"}
    /\ \A k \in DOMAIN bind : bind[k] = None \/ Bound(bind[k])
    /\ handler \in {"Director", "RoundTrip", "ModifyResponse"} /\ op \in DOMAIN Shows =>
           Bound(bind[Kind(op)])
    /\ shown # None =>
           /\ Told(shown.bind) /\ Valid(shown.bind) /\ shown.client \in Clients
           /\ shown.path = IF shown.op = "services" THEN shown.bind
                           ELSE mapPath(shown.bind, shown.client)

\* Every step keeps BindInv, if clients name only files they can name.
LEMMA BindStep ==
    ASSUME ClientsNamed, \A c \in Clients : \A p \in Paths[c] : Nameable(p)
    PROVE  BindInv /\ [Next]_vars => BindInv'
<1> SUFFICES ASSUME BindInv, [Next]_vars PROVE BindInv'
  OBVIOUS
<1>0. \A o : Kind(o) \in {"container", "service"}
  BY DEF Kind
<1>1. ASSUME NEW c \in Clients, NEW o \in Ops, NEW p \in Paths[c] \cup {None}, Request(c, o, p)
      PROVE  BindInv'
  <2>1. /\ op' = o /\ client' = c /\ handler' = "Director" /\ UNCHANGED daemon
        /\ asked' = (IF p = None THEN None ELSE [path |-> p, file |-> ClientFile(p, c)])
        /\ p \in (IF o \in DOMAIN Asks THEN Paths[c] ELSE {None})
        /\ bind[Kind(o)] = None <=> o \in {"create", "serviceCreate"}
    BY <1>1, Zenon DEF Request
  <2>2. asked' # None => /\ o \in DOMAIN Asks /\ Nameable(p) /\ asked'.path = p
                         /\ asked' = [path |-> p, file |-> ClientFile(p, c)]
    <3>1. asked' # None => p # None /\ asked' = [path |-> p, file |-> ClientFile(p, c)]
      BY <2>1, Zenon
    <3>2. p # None => o \in DOMAIN Asks /\ p \in Paths[c]
      BY <2>1, Zenon
    <3> QED
      BY <3>1, <3>2
  <2>3. o \in DOMAIN Shows => Bound(bind[Kind(o)])
    <3>1. o \in DOMAIN Shows => o \notin {"create", "serviceCreate"}
      BY DEF Shows
    <3> QED
      BY <1>0, <2>1, <3>1, Zenon DEF BindInv
  <2> QED
    BY <2>1, <2>2, <2>3, Zenon DEF BindInv, daemon
<1>2. CASE Director
  <2>1. /\ handler = "Director" /\ handler' = "RoundTrip" /\ UNCHANGED <<op, client, daemon>>
        /\ asked' = IF asked = None THEN None
                    ELSE [asked EXCEPT !.path = RewriteBody(@, Asks[op], Url[op], client)]
    BY <1>2, Zenon DEF Director
  <2>2. ASSUME asked' # None PROVE Gives(asked'.path, asked'.file, op)
    <3> DEFINE p == asked.path
               m == RewriteBody(p, Asks[op], Url[op], client)
    <3>1. client \in Clients /\ Nameable(p) /\ asked = [path |-> p, file |-> ClientFile(p, client)]
      BY <2>1, <2>2, Zenon DEF BindInv
    <3>2. asked' = [asked EXCEPT !.path = m]
      BY <2>1, <2>2, Zenon
    <3>4. m \in {p, mapPath(p, client)}
      BY DEF RewriteBody
    <3>5. op \in {"create", "serviceCreate"} => m = mapPath(p, client)
      BY Translated, Zenon
    <3>6. Told(p)
      BY <3>1 DEF Told, Nameable, Segments
    <3> HIDE DEF p, m
    <3>3. asked'.path = m /\ asked'.file = ClientFile(p, client)
      <4>1. asked' = [path |-> m, file |-> ClientFile(p, client)]
        BY <3>1, <3>2, Zenon
      <4> QED
        BY <4>1, Zenon
    <3> QED
      BY <3>1, <3>3, <3>4, <3>5, <3>6, MapsToFile, Zenon DEF Gives
  <2> QED
    BY <2>1, <2>2, Zenon DEF BindInv, daemon
<1>3. CASE RoundTrip
  <2>1. /\ handler = "RoundTrip" /\ handler' = "ModifyResponse"
        /\ UNCHANGED <<op, client, shown>>
        /\ bind' = IF asked # None /\ Valid(asked.path)
                   THEN [bind EXCEPT ![Kind(op)] = [path |-> asked.path, file |-> asked.file, by |-> op]]
                   ELSE bind
    BY <1>3, Zenon DEF RoundTrip, request
  <2>2. CASE asked # None /\ Valid(asked.path)
    <3> DEFINE b == [path |-> asked.path, file |-> asked.file, by |-> op]
    <3>1. bind' = [bind EXCEPT ![Kind(op)] = b] /\ Gives(asked.path, asked.file, op)
      BY <2>1, <2>2, Zenon DEF BindInv
    <3>2. b.path = asked.path /\ b.file = asked.file /\ b.by = op
      BY Zenon
    <3> HIDE DEF b
    <3>3. Bound(b)
      BY <2>2, <3>1, <3>2, Zenon DEF Bound
    <3>4. /\ DOMAIN bind' = DOMAIN bind /\ bind'[Kind(op)] = b
          /\ \A k \in DOMAIN bind : k # Kind(op) => bind'[k] = bind[k]
      BY <1>0, <3>1, Zenon DEF BindInv
    <3> QED
      BY <1>0, <2>1, <3>3, <3>4, Zenon DEF BindInv
  <2>3. CASE ~(asked # None /\ Valid(asked.path))
    <3>1. bind' = bind
      BY <2>1, <2>3, Zenon
    <3> QED
      BY <2>1, <3>1, Zenon DEF BindInv
  <2> QED
    BY <2>2, <2>3
<1>4. CASE ModifyResponse
  <2> DEFINE b == bind[Kind(op)]
             s == [path |-> RewriteBody(b.path, Shows[op], Url[op], client),
                   client |-> client, op |-> op, bind |-> b.path]
  <2>1. /\ handler = "ModifyResponse" /\ handler' \in {"Hijack", "copyResponse"} /\ UNCHANGED <<request, bind>>
        /\ shown' = IF op \in DOMAIN Shows THEN s ELSE shown
    BY <1>4, Zenon DEF ModifyResponse
  <2>2. CASE op \in DOMAIN Shows
    <3>1. /\ s.path = RewriteBody(b.path, Shows[op], Url[op], client) /\ s.client = client
          /\ s.op = op /\ s.bind = b.path
      BY Zenon
    <3>2. Told(b.path) /\ Valid(b.path) /\ client \in Clients
      BY <2>1, <2>2, Zenon DEF BindInv, Bound, Gives
    <3>3. RewriteBody(b.path, Shows[op], Url[op], client)
              = IF op = "services" THEN b.path ELSE mapPath(b.path, client)
      BY <2>2, Translated
    <3>4. shown' = s
      BY <2>1, <2>2, Zenon
    <3> HIDE DEF s, b
    <3> QED
      BY <2>1, <3>1, <3>2, <3>3, <3>4, Zenon DEF BindInv
  <2>3. CASE op \notin DOMAIN Shows
    <3>1. shown' = shown
      BY <2>1, <2>3, Zenon
    <3> QED
      BY <2>1, <3>1, Zenon DEF BindInv
  <2> QED
    BY <2>2, <2>3
<1>5. ASSUME UNCHANGED <<op, client, asked, daemon>>,
             handler' \in {"Director", "RoundTrip", "ModifyResponse"} => UNCHANGED handler
      PROVE  BindInv'
  BY <1>5, Zenon DEF BindInv, daemon
<1>6. CASE \/ \E d \in Dirs : Send(d) \/ Finish(d) \/ Copier(d)
           \/ \E s \in {"client", "daemon"} : Go(s)
           \/ Timer \/ NotifyFires \/ CloserCloses \/ UNCHANGED vars
  <2>1. UNCHANGED <<request, daemon, handler>>
    BY <1>6, Zenon DEF Send, Finish, Copier, Copy, CopierEnds, CloseWrite, SendResult, Go, Timer,
       TimerFires, delayedFlush, NotifyFires, CloserCloses, vars
  <2> QED
    BY <1>5, <2>1, Zenon DEF request
<1>7. CASE \/ RoundTripFails \/ ModifyResponseFails \/ CopyResponse \/ CopyBuffer \/ CopyEnds \/ CopyFails
           \/ Hijack \/ WriteUpgrade \/ WriteUpgradeFails \/ Receive \/ ReceiveAgain
  <2>1. UNCHANGED <<request, daemon>> /\ handler' \notin {"Director", "RoundTrip", "ModifyResponse"}
    BY <1>7 DEF RoundTripFails, ModifyResponseFails, CopyResponse, CopyBuffer, CopyEnds, CopyFails,
       Hijack, WriteUpgrade, WriteUpgradeFails, Receive, ReceiveAgain, Quit, Unwind
  <2> QED
    BY <1>5, <2>1, Zenon DEF request
<1> QED
  BY <1>1, <1>2, <1>3, <1>4, <1>6, <1>7, Zenon DEF Next, Serve

\* Whatever clients there are and whatever files they name: what CreatedBindsResolve,
\* ShownBindsNeverMislead and ShownBindsReturn say, each with its exceptions.
THEOREM BindsAlwaysResolve ==
    ASSUME ClientsNamed, \A c \in Clients : \A p \in Paths[c] : Nameable(p)
    PROVE  Spec => []BindsResolve
<1>1. Init => BindInv
  BY DEF Init, NoExchange, BindInv
<1>2. BindInv /\ [Next]_vars => BindInv'
  BY BindStep
<1>3. ASSUME BindInv PROVE BindsResolve
  <2>1. CreatedBindsResolve
    BY <1>3, Zenon DEF BindInv, Bound, Gives, CreatedBindsResolve
  <2>2. shown # None =>
            /\ Told(shown.bind) /\ Valid(shown.bind) /\ shown.client \in Clients
            /\ shown.path = IF shown.op = "services" THEN shown.bind
                            ELSE mapPath(shown.bind, shown.client)
    BY <1>3, Zenon DEF BindInv
  <2>3. ShownBindsNeverMislead
    BY <2>2, ShownNeverMisleads DEF ShownBindsNeverMislead, Returned
  <2>4. ShownBindsReturn
    BY <2>2, ShownReturns DEF ShownBindsReturn, Returned
  <2> QED
    BY <2>1, <2>3, <2>4 DEF BindsResolve
<1> QED
  BY <1>1, <1>2, <1>3, PTL DEF Spec
=============================================================================
