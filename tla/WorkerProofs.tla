----------------------------- MODULE WorkerProofs -----------------------------
(***************************************************************************)
(* Proofs about Worker, for any number of handlers and descriptors and any *)
(* behaviour of clients and application.  First the pool of handlers and   *)
(* the ownership of descriptors; then, on top of these, the answers.       *)
(***************************************************************************)
EXTENDS Worker, SequenceTheorems, FiniteSetTheorems, TLAPS

(* What the proofs need to know of a handler and of a connection: that     *)
(* they are records with these fields.                                     *)
HandlerFields(h) ==
  h = [phase |-> h.phase, fd |-> h.fd, current |-> h.current, keepAlive |-> h.keepAlive,
       buffered |-> h.buffered, response |-> h.response]

ConnFields(c) ==
  c = [open |-> c.open, hungUp |-> c.hungUp, script |-> c.script, unread |-> c.unread,
       answered |-> c.answered]

Busy == {"recv", "handle", "write"}

(* Replacing parts of a handler other than its descriptor.                 *)
LEMMA WithResponse ==
  ASSUME NEW h, HandlerFields(h), NEW r, NEW g, g = [h EXCEPT !.response = r]
  PROVE  HandlerFields(g) /\ g.fd = h.fd /\ g.phase = h.phase /\ g.response = r
BY DEF HandlerFields

LEMMA WithPhase ==
  ASSUME NEW h, HandlerFields(h), NEW p, NEW g, g = [h EXCEPT !.phase = p]
  PROVE  HandlerFields(g) /\ g.fd = h.fd /\ g.phase = p
BY DEF HandlerFields

LEMMA ErrorPageOK ==
  ASSUME NEW h, HandlerFields(h)
  PROVE  HandlerFields(ErrorPage(h)) /\ ErrorPage(h).fd = h.fd /\ ErrorPage(h).phase = h.phase
<1> DEFINE r1 == [h.response EXCEPT !.body = <<<<h.fd, h.current>>>>]
           g1 == [h EXCEPT !.response = r1]
           r2 == [g1.response EXCEPT !.preamble = "small"]
           g2 == [g1 EXCEPT !.response = r2]
<1>1. ErrorPage(h) = g2
  BY DEF ErrorPage
<1> HIDE DEF r1, r2
<1>2. HandlerFields(g1) /\ g1.fd = h.fd /\ g1.phase = h.phase
  BY WithResponse
<1> HIDE DEF g1
<1>3. HandlerFields(g2) /\ g2.fd = g1.fd /\ g2.phase = g1.phase
  BY <1>2, WithResponse
<1>4. QED
  BY <1>1, <1>2, <1>3

(* finish(true) ends in a write, whether or not the preamble fits.         *)
LEMMA FinishOK ==
  ASSUME NEW h, HandlerFields(h)
  PROVE  HandlerFields(Finish(h)) /\ Finish(h).fd = h.fd /\ Finish(h).phase = "write"
<1> DEFINE composed == ComposeHeaders(h.response)
           g1 == [h EXCEPT !.response = composed]
           failed == ErrorPage(g1)
           g2 == [failed EXCEPT !.response = ComposeHeaders(failed.response)]
<1>1. Finish(h) = [g1 EXCEPT !.phase = "write"] \/ Finish(h) = [g2 EXCEPT !.phase = "write"]
  BY DEF Finish
<1> HIDE DEF composed
<1>2. HandlerFields(g1) /\ g1.fd = h.fd
  BY DEF HandlerFields
<1> HIDE DEF g1
<1>3. HandlerFields(failed) /\ failed.fd = h.fd
  BY <1>2, ErrorPageOK
<1> HIDE DEF failed
<1>4. HandlerFields(g2) /\ g2.fd = h.fd
  <2>1. HandlerFields(g2) /\ g2.fd = failed.fd
    BY <1>3 DEF HandlerFields
  <2>2. QED
    BY <1>3, <2>1
<1> HIDE DEF g2
<1>5. QED
  BY <1>1, <1>2, <1>4, WithPhase

LEMMA WrittenOK ==
  ASSUME NEW h, HandlerFields(h), NEW p, NEW n
  PROVE  HandlerFields(Written(h, p, n)) /\ Written(h, p, n).fd = h.fd
<1> DEFINE r1 == [h.response EXCEPT !.preamble = p]
           g1 == [h EXCEPT !.response = r1]
           r2 == [g1.response EXCEPT !.headers = Append(@, AppLine)]
           g2 == [g1 EXCEPT !.response = r2]
           r3 == [g2.response EXCEPT !.body = @ \o [i \in 1..n |-> <<h.fd, h.current>>]]
           g3 == [g2 EXCEPT !.response = r3]
<1>1. Written(h, p, n) = g3
  BY DEF Written
<1> HIDE DEF r1, r2, r3
<1>2. HandlerFields(g1) /\ g1.fd = h.fd
  BY DEF HandlerFields
<1> HIDE DEF g1
<1>3. HandlerFields(g2) /\ g2.fd = h.fd
  BY <1>2, WithResponse
<1> HIDE DEF g2
<1>4. HandlerFields(g3) /\ g3.fd = h.fd
  BY <1>3, WithResponse
<1>5. QED
  BY <1>1, <1>4

(* processRequest() leaves the handler waiting for the application or for  *)
(* the write of an answer.                                                 *)
LEMMA ProcessRequestOK ==
  ASSUME NEW h, HandlerFields(h)
  PROVE  LET g == ProcessRequest(h)
         IN  HandlerFields(g) /\ g.fd = h.fd /\ g.phase \in Busy
<1> DEFINE keep == (Head(h.buffered) = "keep")
           ready == [h EXCEPT !.response = ResetResponse(@), !.buffered = Tail(@),
                              !.current = @ + 1, !.keepAlive = keep]
           b1 == [ready EXCEPT !.response.body = <<<<h.fd, ready.current>>>>]
           bad == [b1 EXCEPT !.response.preamble = "small"]
           g1 == [ready EXCEPT !.response.keepAlive = ready.keepAlive]
           good == [g1 EXCEPT !.phase = "handle"]
<1>1. ProcessRequest(h) = Finish(bad) \/ ProcessRequest(h) = good
  BY DEF ProcessRequest
<1>2. HandlerFields(ready) /\ ready.fd = h.fd
  <2> DEFINE r == ResetResponse(h.response)
             b == Tail(h.buffered)
             c == h.current + 1
  <2>1. ready = [h EXCEPT !.response = r, !.buffered = b, !.current = c, !.keepAlive = keep]
    OBVIOUS
  <2> HIDE DEF ready, r, b, c, keep
  <2>2. QED
    BY <2>1 DEF HandlerFields
<1> HIDE DEF ready, keep
<1>3. HandlerFields(b1) /\ b1.fd = h.fd
  <2> DEFINE r == [ready.response EXCEPT !.body = <<<<h.fd, ready.current>>>>]
  <2>1. b1 = [ready EXCEPT !.response = r]
    OBVIOUS
  <2> HIDE DEF b1, r
  <2>2. QED
    BY <1>2, <2>1, WithResponse
<1> HIDE DEF b1
<1>4. HandlerFields(bad) /\ bad.fd = h.fd
  <2> DEFINE r == [b1.response EXCEPT !.preamble = "small"]
  <2>1. bad = [b1 EXCEPT !.response = r]
    OBVIOUS
  <2> HIDE DEF bad, r
  <2>2. QED
    BY <1>3, <2>1, WithResponse
<1> HIDE DEF bad
<1>5. HandlerFields(g1) /\ g1.fd = h.fd
  <2> DEFINE r == [ready.response EXCEPT !.keepAlive = ready.keepAlive]
  <2>1. g1 = [ready EXCEPT !.response = r]
    OBVIOUS
  <2> HIDE DEF g1, r
  <2>2. QED
    BY <1>2, <2>1, WithResponse
<1> HIDE DEF g1
<1>6. HandlerFields(good) /\ good.fd = h.fd /\ good.phase = "handle"
  BY <1>5, WithPhase
<1> HIDE DEF good
<1>7. QED
  BY <1>1, <1>4, <1>6, FinishOK DEF Busy

-----------------------------------------------------------------------------
(***************************************************************************)
(* The inductive invariant: the shape of the state, the two properties,    *)
(* and that a pooled handler is really one.                                *)
(***************************************************************************)
Shape ==
  /\ running \in BOOLEAN
  /\ pool \in Seq(Handlers)
  /\ handler = [x \in Handlers |-> handler[x]]
  /\ \A x \in Handlers : HandlerFields(handler[x])
  /\ conn = [f \in Fds |-> conn[f]]
  /\ \A f \in Fds : ConnFields(conn[f]) /\ conn[f].open \in BOOLEAN

IInv == Shape /\ PoolSound /\ DescriptorsOwned

LEMMA InitInv == Init => IInv
<1> SUFFICES ASSUME Init PROVE IInv
  OBVIOUS
<1>1. \A x \in Handlers : handler[x] = Unmade /\ handler[x].phase = "unmade"
  BY DEF Init, Unmade
<1>2. \A f \in Fds : conn[f] = Closed /\ conn[f].open = FALSE
  BY DEF Init, Closed
<1>3. Shape
  <2>1. \A x \in Handlers : HandlerFields(handler[x])
    BY <1>1 DEF HandlerFields, Unmade
  <2>2. \A f \in Fds : ConnFields(conn[f])
    BY <1>2 DEF ConnFields, Closed
  <2>3. << >> \in Seq(Handlers)
    OBVIOUS
  <2>4. QED
    BY <1>2, <2>1, <2>2, <2>3 DEF Shape, Init
<1>4. PoolSound
  BY <1>1 DEF PoolSound, Init, IsInjective, Range
<1>5. DescriptorsOwned
  BY <1>1, <1>2 DEF DescriptorsOwned, Active, Open, Init
<1>6. QED
  BY <1>3, <1>4, <1>5 DEF IInv

(* A busy handler that stays busy on its descriptor disturbs nothing.      *)
LEMMA StaysBusy ==
  ASSUME IInv, NEW x \in Handlers, Active(x),
         NEW g, HandlerFields(g), g.fd = handler[x].fd, g.phase \in Busy,
         handler' = [handler EXCEPT ![x] = g],
         pool' = pool, epoll' = epoll, running' = running,
         conn' = [f \in Fds |-> conn'[f]],
         \A f \in Fds : ConnFields(conn'[f]) /\ conn'[f].open = conn[f].open
  PROVE  IInv'
<1>1. \A y \in Handlers : handler'[y] = IF y = x THEN g ELSE handler[y]
  BY DEF IInv, Shape
<1>2. \A y \in Handlers : Active(y)' = Active(y) /\ handler'[y].fd = handler[y].fd
  BY <1>1 DEF Active, Busy
<1>3. \A y \in Handlers : handler'[y].phase = "pooled" <=> handler[y].phase = "pooled"
  BY <1>1 DEF Active, Busy
<1>4. Shape'
  <2>1. handler' = [y \in Handlers |-> handler'[y]]
    BY DEF IInv, Shape
  <2>2. QED
    BY <1>1, <2>1 DEF IInv, Shape
<1>5. PoolSound'
  BY <1>3 DEF IInv, PoolSound
<1>6. DescriptorsOwned'
  BY <1>2 DEF IInv, DescriptorsOwned, Open
<1>7. QED
  BY <1>4, <1>5, <1>6 DEF IInv

(* Pushing a new element on a stack without duplicates, and popping it.    *)
LEMMA PutProperties ==
  ASSUME NEW S, NEW s \in Seq(S), IsInjective(s), NEW x \in S, x \notin Range(s)
  PROVE  LET t == Append(s, x)
         IN  t \in Seq(S) /\ IsInjective(t) /\ Range(t) = Range(s) \cup {x}
<1> DEFINE t == Append(s, x)
<1>1. /\ t \in Seq(S) /\ Len(t) = Len(s) + 1 /\ Len(s) \in Nat
      /\ \A i \in 1..Len(s) : t[i] = s[i] /\ s[i] \in Range(s)
      /\ t[Len(s) + 1] = x
  BY DEF Range
<1>2. DOMAIN t = 1..(Len(s) + 1) /\ DOMAIN s = 1..Len(s)
  BY <1>1
<1>3. ASSUME NEW i \in DOMAIN t, NEW j \in DOMAIN t, t[i] = t[j] PROVE i = j
  <2>1. CASE i \in 1..Len(s) /\ j \in 1..Len(s)
    BY <1>1, <1>2, <1>3, <2>1 DEF IsInjective
  <2>2. CASE ~(i \in 1..Len(s) /\ j \in 1..Len(s))
    BY <1>1, <1>2, <1>3, <2>2
  <2>3. QED
    BY <2>1, <2>2
<1>4. Range(t) = Range(s) \cup {x}
  <2> HIDE DEF t
  <2>1. Range(t) \subseteq Range(s) \cup {x}
    BY <1>1, <1>2 DEF Range
  <2>2. Range(s) \cup {x} \subseteq Range(t)
    <3>1. x \in Range(t)
      <4>1. Len(s) + 1 \in DOMAIN t
        BY <1>1, <1>2
      <4>2. QED
        BY <1>1, <4>1 DEF Range
    <3>2. \A i \in DOMAIN s : i \in DOMAIN t /\ t[i] = s[i]
      BY <1>1, <1>2
    <3>3. Range(s) \subseteq Range(t)
      BY <3>2 DEF Range
    <3>4. QED
      BY <3>1, <3>3
  <2>3. QED
    BY <2>1, <2>2
<1>5. QED
  BY <1>1, <1>3, <1>4 DEF IsInjective

LEMMA GetProperties ==
  ASSUME NEW S, NEW s \in Seq(S), IsInjective(s), s # << >>
  PROVE  /\ Last(s) \in Range(s) /\ Last(s) \in S
         /\ Front(s) \in Seq(S) /\ IsInjective(Front(s))
         /\ Range(Front(s)) = Range(s) \ {Last(s)}
<1> DEFINE t == Front(s)
           n == Len(s)
<1>1. n \in Nat \ {0} /\ DOMAIN s = 1..n
  BY EmptySeq
<1>2. /\ t \in Seq(S) /\ DOMAIN t = 1..(n - 1)
      /\ \A i \in 1..(n - 1) : t[i] = s[i]
  BY <1>1 DEF Front
<1>3. Last(s) = s[n] /\ n \in DOMAIN s
  BY <1>1 DEF Last
<1> HIDE DEF t, n
<1>4. IsInjective(t)
  BY <1>1, <1>2 DEF IsInjective
<1>5. Range(t) = Range(s) \ {s[n]}
  <2>1. \A i \in DOMAIN t : i \in DOMAIN s /\ i # n /\ t[i] = s[i]
    BY <1>1, <1>2
  <2>2. \A i \in DOMAIN s : i # n => i \in DOMAIN t /\ t[i] = s[i]
    BY <1>1, <1>2
  <2>3. \A i \in DOMAIN s : s[i] = s[n] => i = n
    BY <1>3 DEF IsInjective
  <2>4. Range(t) \subseteq Range(s) \ {s[n]}
    BY <2>1, <2>3 DEF Range
  <2>5. Range(s) \ {s[n]} \subseteq Range(t)
    BY <2>2 DEF Range
  <2>6. QED
    BY <2>4, <2>5
<1>6. s[n] \in S /\ s[n] \in Range(s)
  BY <1>1, <1>3 DEF Range
<1>7. QED
  BY <1>2, <1>3, <1>4, <1>5, <1>6 DEF t

(* stop() releases the handler and its descriptor together.                *)
LEMMA StopOK ==
  ASSUME IInv, NEW x \in Handlers, Active(x), Stop(x), running' = running
  PROVE  IInv'
<1>1. PICK f \in Fds : f = handler[x].fd /\ Open(f)
  BY DEF IInv, DescriptorsOwned
<1>a. PICK g : g = [handler[x] EXCEPT !.phase = "pooled"]
  OBVIOUS
<1>2. HandlerFields(g) /\ g.phase = "pooled"
  <2>1. HandlerFields(handler[x])
    BY DEF IInv, Shape
  <2>2. QED
    BY <1>a, <2>1, WithPhase
<1>3. \A y \in Handlers : handler'[y] = IF y = x THEN g ELSE handler[y]
  BY <1>a DEF IInv, Shape, Stop
<1>4. \A e \in Fds : conn'[e] = IF e = f THEN Closed ELSE conn[e]
  BY <1>1 DEF IInv, Shape, Stop
<1>5. /\ pool' = Append(pool, x) /\ epoll' = epoll \ {f}
      /\ handler' = [y \in Handlers |-> handler'[y]]
      /\ conn' = [e \in Fds |-> conn'[e]]
  BY <1>1 DEF Stop, IInv, Shape
<1>6. handler[x].phase # "pooled" /\ x \notin Range(pool)
  BY DEF Active, IInv, PoolSound
<1>7. pool' \in Seq(Handlers) /\ IsInjective(pool') /\ Range(pool') = Range(pool) \cup {x}
  BY <1>5, <1>6, PutProperties DEF IInv, Shape, PoolSound
<1>8. \A y \in Handlers : y # x => handler'[y] = handler[y]
  BY <1>3
<1>9. ~Active(x)' /\ \A y \in Handlers : y # x => Active(y)' = Active(y)
  BY <1>2, <1>3 DEF Active
<1>10. ~Open(f)' /\ \A e \in Fds : e # f => Open(e)' = Open(e)
  BY <1>1, <1>4 DEF Open, Closed
<1>11. Shape'
  <2>1. ConnFields(Closed) /\ Closed.open = FALSE
    BY DEF ConnFields, Closed
  <2>2. QED
    BY <1>2, <1>3, <1>4, <1>5, <1>7, <2>1 DEF IInv, Shape
<1>12. PoolSound'
  BY <1>2, <1>3, <1>7 DEF IInv, PoolSound
<1>13. DescriptorsOwned'
  <2>1. \A y \in Handlers : y # x /\ Active(y) => handler[y].fd # f
    BY <1>1 DEF IInv, DescriptorsOwned
  <2>2. \A y, z \in Handlers : Active(y)' /\ Active(z)' /\ handler'[y].fd = handler'[z].fd => y = z
    BY <1>8, <1>9 DEF IInv, DescriptorsOwned
  <2>3. \A e \in Fds : Open(e)' <=> \E y \in Handlers : Active(y)' /\ handler'[y].fd = e
    <3>1. \A e \in Fds : Open(e) <=> \E y \in Handlers : Active(y) /\ handler[y].fd = e
      BY DEF IInv, DescriptorsOwned
    <3>2. ASSUME NEW e \in Fds, e # f
          PROVE  Open(e)' <=> \E y \in Handlers : Active(y)' /\ handler'[y].fd = e
      <4>1. \A y \in Handlers :
              (Active(y)' /\ handler'[y].fd = e) <=> (Active(y) /\ handler[y].fd = e)
        BY <1>1, <1>8, <1>9, <3>2
      <4>2. QED
        BY <1>10, <3>1, <3>2, <4>1
    <3>3. ~ \E y \in Handlers : Active(y)' /\ handler'[y].fd = f
      BY <1>8, <1>9, <2>1
    <3>4. QED
      BY <1>10, <3>2, <3>3
  <2>4. \A y \in Handlers : Active(y)' => handler'[y].fd \in Fds
    BY <1>8, <1>9 DEF IInv, DescriptorsOwned
  <2>5. epoll' = {e \in Fds : Open(e)'}
    BY <1>5, <1>10 DEF IInv, DescriptorsOwned
  <2>6. QED
    BY <2>2, <2>3, <2>4, <2>5 DEF DescriptorsOwned
<1>14. QED
  BY <1>11, <1>12, <1>13 DEF IInv

(* Accepting a connection gives it a handler that nobody else uses.        *)
LEMMA AcceptOK ==
  ASSUME IInv, NEW x \in Handlers, NEW f \in Fds, Accept(x, f)
  PROVE  IInv'
<1>1. PICK b : handler' = [handler EXCEPT ![x] = Started(@, f, b)]
  BY DEF Accept
<1>2. PICK s : conn' = [conn EXCEPT ![f] = [Closed EXCEPT !.open = TRUE, !.script = s, !.unread = s]]
  BY DEF Accept
<1>3. PICK g : g = Started(handler[x], f, b)
  OBVIOUS
<1>4. HandlerFields(g) /\ g.phase = "recv" /\ g.fd = f
  BY <1>3 DEF Started, HandlerFields
<1>5. PICK c : c = [Closed EXCEPT !.open = TRUE, !.script = s, !.unread = s]
  OBVIOUS
<1>6. ConnFields(c) /\ c.open = TRUE
  BY <1>5 DEF Closed, ConnFields
<1>7. \A y \in Handlers : handler'[y] = IF y = x THEN g ELSE handler[y]
  BY <1>1, <1>3 DEF IInv, Shape
<1>8. \A e \in Fds : conn'[e] = IF e = f THEN c ELSE conn[e]
  BY <1>2, <1>5 DEF IInv, Shape
<1>9. /\ ~Open(f) /\ epoll' = epoll \cup {f} /\ running' = running
      /\ handler' = [y \in Handlers |-> handler'[y]]
      /\ conn' = [e \in Fds |-> conn'[e]]
  BY <1>1, <1>2 DEF Accept, IInv, Shape
<1>10. \/ pool # << >> /\ x = Last(pool) /\ pool' = Front(pool)
       \/ pool = << >> /\ handler[x].phase = "unmade" /\ pool' = pool
  BY DEF Accept, Get
<1>11. pool \in Seq(Handlers) /\ IsInjective(pool)
  BY DEF IInv, Shape, PoolSound
<1>12. /\ pool' \in Seq(Handlers) /\ IsInjective(pool')
       /\ Range(pool') = Range(pool) \ {x}
       /\ ~Active(x)
  <2>1. CASE pool # << >> /\ x = Last(pool) /\ pool' = Front(pool)
    <3>1. x \in Range(pool)
      BY <1>11, <2>1, GetProperties
    <3>2. ~Active(x)
      BY <3>1 DEF IInv, PoolSound, Active
    <3>3. QED
      BY <1>11, <2>1, <3>2, GetProperties
  <2>2. CASE pool = << >> /\ handler[x].phase = "unmade" /\ pool' = pool
    <3>1. x \notin Range(pool)
      BY <2>2 DEF IInv, PoolSound
    <3>2. QED
      BY <1>11, <2>2, <3>1 DEF Active
  <2>3. QED
    BY <1>10, <2>1, <2>2
<1>13. Active(x)' /\ \A y \in Handlers : y # x => Active(y)' = Active(y)
  BY <1>4, <1>7 DEF Active
<1>14. Open(f)' /\ \A e \in Fds : e # f => Open(e)' = Open(e)
  BY <1>6, <1>8 DEF Open
<1>15. Shape'
  BY <1>4, <1>6, <1>7, <1>8, <1>9, <1>12 DEF IInv, Shape
<1>16. PoolSound'
  BY <1>4, <1>7, <1>12 DEF IInv, PoolSound
<1>17. DescriptorsOwned'
  <2>1. \A y \in Handlers : Active(y) => handler[y].fd # f
    BY <1>9 DEF IInv, DescriptorsOwned
  <2>2. \A y \in Handlers : y # x => handler'[y] = handler[y]
    BY <1>7
  <2>3. handler'[x].fd = f
    BY <1>4, <1>7
  <2>4. \A y, z \in Handlers : Active(y)' /\ Active(z)' /\ handler'[y].fd = handler'[z].fd => y = z
    BY <1>13, <2>1, <2>2, <2>3 DEF IInv, DescriptorsOwned
  <2>5. \A e \in Fds : Open(e)' <=> \E y \in Handlers : Active(y)' /\ handler'[y].fd = e
    <3>1. \A e \in Fds : Open(e) <=> \E y \in Handlers : Active(y) /\ handler[y].fd = e
      BY DEF IInv, DescriptorsOwned
    <3>2. ASSUME NEW e \in Fds, e # f
          PROVE  Open(e)' <=> \E y \in Handlers : Active(y)' /\ handler'[y].fd = e
      <4>1. \A y \in Handlers :
              (Active(y)' /\ handler'[y].fd = e) <=> (Active(y) /\ handler[y].fd = e)
        BY <1>12, <1>13, <2>2, <2>3, <3>2
      <4>2. QED
        BY <1>14, <3>1, <3>2, <4>1
    <3>3. QED
      BY <1>13, <1>14, <2>3, <3>2
  <2>6. \A y \in Handlers : Active(y)' => handler'[y].fd \in Fds
    BY <1>13, <2>2, <2>3 DEF IInv, DescriptorsOwned
  <2>7. epoll' = {e \in Fds : Open(e)'}
    BY <1>9, <1>14 DEF IInv, DescriptorsOwned
  <2>8. QED
    BY <2>4, <2>5, <2>6, <2>7 DEF DescriptorsOwned
<1>18. QED
  BY <1>15, <1>16, <1>17 DEF IInv

(* The connection record of a busy handler changes in other fields than    *)
(* open.                                                                   *)
LEMMA ConnUpdate ==
  ASSUME Shape, NEW f \in Fds, NEW c, ConnFields(c), c.open = conn[f].open,
         conn' = [conn EXCEPT ![f] = c]
  PROVE  /\ conn' = [e \in Fds |-> conn'[e]]
         /\ \A e \in Fds : ConnFields(conn'[e]) /\ conn'[e].open = conn[e].open
<1>1. \A e \in Fds : conn'[e] = IF e = f THEN c ELSE conn[e]
  BY DEF Shape
<1>2. conn' = [e \in Fds |-> conn'[e]]
  BY DEF Shape
<1>3. QED
  BY <1>1, <1>2 DEF Shape

(* Steps that move neither a handler nor a descriptor.                     *)
LEMMA NothingMoves ==
  ASSUME IInv, pool' = pool, handler' = handler, epoll' = epoll, running' \in BOOLEAN,
         conn' = [f \in Fds |-> conn'[f]],
         \A f \in Fds : ConnFields(conn'[f]) /\ conn'[f].open = conn[f].open
  PROVE  IInv'
<1>1. \A y \in Handlers : Active(y)' = Active(y)
  BY DEF Active
<1>2. \A f \in Fds : Open(f)' = Open(f)
  BY DEF Open
<1>3. Shape'
  BY DEF IInv, Shape
<1>4. PoolSound'
  BY DEF IInv, PoolSound
<1>5. DescriptorsOwned'
  BY <1>1, <1>2 DEF IInv, DescriptorsOwned
<1>6. QED
  BY <1>3, <1>4, <1>5 DEF IInv

LEMMA RequestCompletedOK ==
  ASSUME IInv, NEW x \in Handlers, Active(x), NEW n, RequestCompleted(x, n), running' = running
  PROVE  IInv'
<1>1. CASE Stop(x)
  BY <1>1, StopOK
<1>2. CASE ~Stop(x)
  <2>1. PICK h : h = handler[x]
    OBVIOUS
  <2>2. HandlerFields(h)
    BY <2>1 DEF IInv, Shape
  <2>3. PICK g : g = IF h.buffered = << >> THEN [h EXCEPT !.phase = "recv"] ELSE ProcessRequest(h)
    OBVIOUS
  <2>4. HandlerFields(g) /\ g.fd = h.fd /\ g.phase \in Busy
    BY <2>2, <2>3, WithPhase, ProcessRequestOK DEF Busy
  <2>5. handler' = [handler EXCEPT ![x] = g] /\ pool' = pool /\ epoll' = epoll
    BY <1>2, <2>1, <2>3 DEF RequestCompleted
  <2>6. PICK f \in Fds : f = h.fd
    BY <2>1 DEF IInv, DescriptorsOwned
  <2>7. PICK c : c = [conn[f] EXCEPT !.answered = n]
    OBVIOUS
  <2>8. ConnFields(conn[f])
    BY DEF IInv, Shape
  <2>9. ConnFields(c) /\ c.open = conn[f].open
    BY <2>7, <2>8 DEF ConnFields
  <2>10. conn' = [conn EXCEPT ![f] = c]
    BY <1>2, <2>1, <2>6, <2>7 DEF RequestCompleted
  <2>11. QED
    BY <2>1, <2>4, <2>5, <2>9, <2>10, ConnUpdate, StaysBusy DEF IInv
<1>3. QED
  BY <1>1, <1>2

LEMMA StepInv == IInv /\ [Next]_vars => IInv'
<1> SUFFICES ASSUME IInv, [Next]_vars PROVE IInv'
  OBVIOUS
<1>1. \A x \in Handlers : HandlerFields(handler[x])
  BY DEF IInv, Shape
<1>2. /\ conn = [f \in Fds |-> conn[f]]
      /\ \A f \in Fds : ConnFields(conn[f])
  BY DEF IInv, Shape
<1>3. ASSUME NEW x \in Handlers, NEW f \in Fds, Accept(x, f) PROVE IInv'
  BY <1>3, AcceptOK
<1>4. CASE AcceptError
  BY <1>2, <1>4, NothingMoves DEF AcceptError
<1>5. ASSUME NEW x \in Handlers, ReadEnd(x) PROVE IInv'
  BY <1>5, StopOK DEF ReadEnd, Active
<1>6. ASSUME NEW x \in Handlers, NEW n, ReadCB(x, n) PROVE IInv'
  <2>1. PICK h : h = handler[x]
    OBVIOUS
  <2>2. PICK f \in Fds : f = h.fd
    BY <1>6, <2>1 DEF ReadCB, Active, IInv, DescriptorsOwned
  <2>3. PICK b : b = [h EXCEPT !.buffered = SubSeq(conn[f].unread, 1, n)]
    OBVIOUS
  <2>4. HandlerFields(b) /\ b.fd = h.fd
    <3>1. HandlerFields(h)
      BY <1>1, <2>1
    <3>2. QED
      BY <2>3, <3>1 DEF HandlerFields
  <2>5. PICK g : g = ProcessRequest(b)
    OBVIOUS
  <2>6. HandlerFields(g) /\ g.fd = h.fd /\ g.phase \in Busy
    BY <2>4, <2>5, ProcessRequestOK
  <2>7. PICK c : c = [conn[f] EXCEPT !.unread = SubSeq(conn[f].unread, n + 1, Len(conn[f].unread))]
    OBVIOUS
  <2>8. ConnFields(c) /\ c.open = conn[f].open
    <3>1. ConnFields(conn[f])
      BY <1>2
    <3> DEFINE u == SubSeq(conn[f].unread, n + 1, Len(conn[f].unread))
    <3>2. c = [conn[f] EXCEPT !.unread = u]
      BY <2>7
    <3> HIDE DEF u
    <3>3. QED
      BY <3>1, <3>2 DEF ConnFields
  <2>9. /\ handler' = [handler EXCEPT ![x] = g] /\ conn' = [conn EXCEPT ![f] = c]
        /\ pool' = pool /\ epoll' = epoll /\ running' = running /\ Active(x)
    BY <1>6, <2>1, <2>2, <2>3, <2>5, <2>7 DEF ReadCB, Active
  <2>10. QED
    BY <2>1, <2>6, <2>8, <2>9, ConnUpdate, StaysBusy DEF IInv
<1>7. ASSUME NEW x \in Handlers, AppFinish(x) \/ AppThrow(x) PROVE IInv'
  <2>1. PICK h : h = handler[x]
    OBVIOUS
  <2>2. PICK p, n : \/ handler' = [handler EXCEPT ![x] = Finish(Written(@, p, n))]
                    \/ handler' = [handler EXCEPT ![x] = Finish(ErrorPage(Written(@, p, n)))]
    BY <1>7 DEF AppFinish, AppThrow
  <2>3. HandlerFields(Written(h, p, n)) /\ Written(h, p, n).fd = h.fd
    BY <1>1, <2>1, WrittenOK
  <2>4. PICK g : /\ g \in {Finish(Written(h, p, n)), Finish(ErrorPage(Written(h, p, n)))}
                 /\ handler' = [handler EXCEPT ![x] = g]
    BY <2>1, <2>2
  <2>5. HandlerFields(g) /\ g.fd = h.fd /\ g.phase \in Busy
    BY <2>3, <2>4, ErrorPageOK, FinishOK DEF Busy
  <2>6. pool' = pool /\ epoll' = epoll /\ running' = running /\ conn' = conn /\ Active(x)
    BY <1>7 DEF AppFinish, AppThrow, Active
  <2>7. QED
    BY <1>2, <2>1, <2>4, <2>5, <2>6, StaysBusy
<1>8. ASSUME NEW x \in Handlers, AppFinishUnflushed(x) PROVE IInv'
  BY <1>8, RequestCompletedOK DEF AppFinishUnflushed, Active
<1>9. ASSUME NEW x \in Handlers, AppAbort(x) PROVE IInv'
  BY <1>9, StopOK DEF AppAbort, Active
<1>10. ASSUME NEW x \in Handlers, WriteDone(x) PROVE IInv'
  BY <1>10, RequestCompletedOK DEF WriteDone, Active
<1>11. ASSUME NEW x \in Handlers, WriteFailed(x) PROVE IInv'
  BY <1>11, StopOK DEF WriteFailed, Active
<1>12. ASSUME NEW f \in Fds, HangUp(f) PROVE IInv'
  <2>1. PICK c : c = [conn[f] EXCEPT !.hungUp = TRUE]
    OBVIOUS
  <2>2. ConnFields(c) /\ c.open = conn[f].open
    <3>1. ConnFields(conn[f])
      BY <1>2
    <3>2. QED
      BY <2>1, <3>1 DEF ConnFields
  <2>3. conn' = [conn EXCEPT ![f] = c] /\ UNCHANGED <<running, pool, handler, epoll>>
    BY <1>12, <2>1 DEF HangUp
  <2>4. /\ conn' = [e \in Fds |-> conn'[e]]
        /\ \A e \in Fds : ConnFields(conn'[e]) /\ conn'[e].open = conn[e].open
    BY <2>2, <2>3, ConnUpdate DEF IInv
  <2>5. QED
    BY <2>3, <2>4, NothingMoves DEF IInv, Shape
<1>13. CASE UNCHANGED vars
  <2>1. running \in BOOLEAN
    BY DEF IInv, Shape
  <2>2. QED
    BY <1>2, <1>13, <2>1, NothingMoves DEF vars
<1>14. QED
  BY <1>3, <1>4, <1>5, <1>6, <1>7, <1>8, <1>9, <1>10, <1>11, <1>12, <1>13
  DEF Next, Read, App, Write, Exited

(* Whatever clients and applications do, no handler is lost, pooled twice, *)
(* or pooled while it serves a connection.                                 *)
THEOREM PoolIsSound == Spec => []PoolSound
<1>1. IInv => PoolSound
  BY DEF IInv
<1>2. QED
  BY <1>1, InitInv, StepInv, PTL DEF Spec

(* Every open descriptor has one handler, and epoll knows the open ones.   *)
THEOREM DescriptorsAreOwned == Spec => []DescriptorsOwned
<1>1. IInv => DescriptorsOwned
  BY DEF IInv
<1>2. QED
  BY <1>1, InitInv, StepInv, PTL DEF Spec

-----------------------------------------------------------------------------
(***************************************************************************)
(* The answers: each response that is written belongs to the request it    *)
(* answers, says of the connection what the client asked for, and can be   *)
(* framed; and nothing is processed behind a request that ends the         *)
(* connection.                                                             *)
(***************************************************************************)
(* The headers that composeHeaders() appends in front of a body of n chunks. *)
Composed(n) == <<DateLine, LengthLine(n), EmptyLine>>

(* What is buffered in the handler, and what the kernel holds, is the rest *)
(* of what the client sent behind the current request.                     *)
RestOfScript(h, c) ==
  /\ Len(c.script) = h.current + Len(h.buffered) + Len(c.unread)
  /\ \A i \in 1..Len(h.buffered) : h.buffered[i] = c.script[h.current + i]
  /\ \A i \in 1..Len(c.unread) : c.unread[i] = c.script[h.current + Len(h.buffered) + i]

(* A handler that reads has answered all there was, and all of it kept the *)
(* connection.                                                             *)
Reading(h, c) ==
  /\ h.buffered = << >>
  /\ c.answered <= h.current
  /\ \A k \in 1..h.current : c.script[k] = "keep"

(* One that is busy with its current request has not answered it before,   *)
(* and all the requests before kept the connection.                        *)
Answering(h, c) ==
  /\ c.answered < h.current
  /\ \A k \in 1..(h.current - 1) : c.script[k] = "keep"
  /\ h.keepAlive = (c.script[h.current] = "keep")

InProgress(h, c) == IF h.phase = "recv" THEN Reading(h, c) ELSE Answering(h, c)

(* The application is given an empty response.  One that is written has a  *)
(* header that may be the application's, and one or, after an error page   *)
(* that replaced it, two composed blocks.                                  *)
HeadersOK(r) ==
  \E own \in {<< >>, <<AppLine>>} :
    \/ r.headers = own \o Composed(Len(r.body))
    \/ /\ r.preamble = "small" /\ Len(r.body) = 1
       /\ \E n \in 0..1 : r.headers = (own \o Composed(n)) \o Composed(1)

ResponseOK(h, c) ==
  /\ h.phase = "handle" => /\ h.response.headers = << >> /\ h.response.body = << >>
                           /\ h.response.keepAlive = h.keepAlive
  /\ h.phase = "write" => /\ \A k \in DOMAIN h.response.body : h.response.body[k] = <<h.fd, h.current>>
                          /\ c.script[h.current] # "bad" => h.response.keepAlive = h.keepAlive
                          /\ HeadersOK(h.response)

Serves(h, c) == RestOfScript(h, c) /\ InProgress(h, c) /\ ResponseOK(h, c)

AllServe == \A x \in Handlers : Active(x) => Serves(handler[x], conn[handler[x].fd])

AInv == IInv /\ TypeOK /\ AllServe

-----------------------------------------------------------------------------
(***************************************************************************)
(* What the operations on a handler leave in it, field by field.           *)
(***************************************************************************)
ResponseFields(r) ==
  r = [preamble |-> r.preamble, headers |-> r.headers, body |-> r.body, keepAlive |-> r.keepAlive]

(* Everything but phase and response is as it was.                         *)
SameRequest(g, h) ==
  g.fd = h.fd /\ g.current = h.current /\ g.keepAlive = h.keepAlive /\ g.buffered = h.buffered

(* Replacing one field.                                                    *)
LEMMA NewResponseObject ==
  ASSUME NEW h, HandlerFields(h), NEW r, NEW g, g = [h EXCEPT !.response = r]
  PROVE  HandlerFields(g) /\ SameRequest(g, h) /\ g.phase = h.phase /\ g.response = r
BY DEF HandlerFields, SameRequest

LEMMA NewPhase ==
  ASSUME NEW h, HandlerFields(h), NEW p, NEW g, g = [h EXCEPT !.phase = p]
  PROVE  HandlerFields(g) /\ SameRequest(g, h) /\ g.phase = p /\ g.response = h.response
BY DEF HandlerFields, SameRequest

LEMMA NewPreamble ==
  ASSUME NEW r, ResponseFields(r), NEW e, NEW g, g = [r EXCEPT !.preamble = e]
  PROVE  /\ ResponseFields(g) /\ g.preamble = e
         /\ g.headers = r.headers /\ g.body = r.body /\ g.keepAlive = r.keepAlive
BY DEF ResponseFields

LEMMA NewHeaders ==
  ASSUME NEW r, ResponseFields(r), NEW e, NEW g, g = [r EXCEPT !.headers = e]
  PROVE  /\ ResponseFields(g) /\ g.headers = e
         /\ g.preamble = r.preamble /\ g.body = r.body /\ g.keepAlive = r.keepAlive
BY DEF ResponseFields

LEMMA NewBody ==
  ASSUME NEW r, ResponseFields(r), NEW e, NEW g, g = [r EXCEPT !.body = e]
  PROVE  /\ ResponseFields(g) /\ g.body = e
         /\ g.preamble = r.preamble /\ g.headers = r.headers /\ g.keepAlive = r.keepAlive
BY DEF ResponseFields

LEMMA NewKeepAlive ==
  ASSUME NEW r, ResponseFields(r), NEW e, NEW g, g = [r EXCEPT !.keepAlive = e]
  PROVE  /\ ResponseFields(g) /\ g.keepAlive = e
         /\ g.preamble = r.preamble /\ g.headers = r.headers /\ g.body = r.body
BY DEF ResponseFields

LEMMA ErrorPageIs ==
  ASSUME NEW h, HandlerFields(h), ResponseFields(h.response), NEW g, g = ErrorPage(h)
  PROVE  /\ HandlerFields(g) /\ SameRequest(g, h) /\ g.phase = h.phase
         /\ ResponseFields(g.response)
         /\ g.response.preamble = "small" /\ g.response.headers = h.response.headers
         /\ g.response.body = <<<<h.fd, h.current>>>>
         /\ g.response.keepAlive = h.response.keepAlive
<1> DEFINE page == <<<<h.fd, h.current>>>>
           r1 == [h.response EXCEPT !.body = page]
           h1 == [h EXCEPT !.response = r1]
           r2 == [h1.response EXCEPT !.preamble = "small"]
           h2 == [h1 EXCEPT !.response = r2]
<1>1. g = h2
  BY DEF ErrorPage
<1> HIDE DEF page
<1>2. /\ ResponseFields(r1) /\ r1.body = page
      /\ r1.headers = h.response.headers /\ r1.keepAlive = h.response.keepAlive
  BY NewBody
<1> HIDE DEF r1
<1>3. HandlerFields(h1) /\ SameRequest(h1, h) /\ h1.phase = h.phase /\ h1.response = r1
  BY NewResponseObject
<1> HIDE DEF h1
<1>4. /\ ResponseFields(r2) /\ r2.preamble = "small"
      /\ r2.headers = r1.headers /\ r2.body = r1.body /\ r2.keepAlive = r1.keepAlive
  <2>1. ResponseFields(h1.response)
    BY <1>2, <1>3
  <2>2. PICK r : r = h1.response
    OBVIOUS
  <2>3. r2 = [r EXCEPT !.preamble = "small"]
    BY <2>2
  <2> HIDE DEF r2
  <2>4. QED
    BY <1>3, <2>1, <2>2, <2>3, NewPreamble
<1> HIDE DEF r2
<1>5. HandlerFields(h2) /\ SameRequest(h2, h1) /\ h2.phase = h1.phase /\ h2.response = r2
  BY <1>3, NewResponseObject
<1> HIDE DEF h2
<1>6. QED
  BY <1>1, <1>2, <1>3, <1>4, <1>5 DEF page, SameRequest

LEMMA ComposeIs ==
  ASSUME NEW r, ResponseFields(r), NEW g, g = ComposeHeaders(r)
  PROVE  /\ ResponseFields(g)
         /\ g.headers = r.headers \o Composed(Len(r.body))
         /\ g.preamble = r.preamble /\ g.body = r.body /\ g.keepAlive = r.keepAlive
<1> DEFINE t == r.headers \o Composed(Len(r.body))
<1>1. g = [r EXCEPT !.headers = t]
  BY DEF ComposeHeaders, Composed
<1> HIDE DEF t
<1>2. /\ ResponseFields(g) /\ g.headers = t
      /\ g.preamble = r.preamble /\ g.body = r.body /\ g.keepAlive = r.keepAlive
  BY <1>1, NewHeaders
<1>3. QED
  BY <1>2 DEF t

(* finish(true): the composed response, or an error page behind what was   *)
(* composed for it.                                                        *)
LEMMA FinishIs ==
  ASSUME NEW h, HandlerFields(h), ResponseFields(h.response), NEW g, g = Finish(h)
  PROVE  LET r == h.response
             s == r.headers \o Composed(Len(r.body))
         IN  /\ HandlerFields(g) /\ SameRequest(g, h) /\ g.phase = "write"
             /\ ResponseFields(g.response)
             /\ g.response.keepAlive = r.keepAlive
             /\ r.preamble # "large" => /\ g.response.preamble = r.preamble
                                        /\ g.response.headers = s
                                        /\ g.response.body = r.body
             /\ r.preamble = "large" => /\ g.response.preamble = "small"
                                        /\ g.response.headers = s \o Composed(1)
                                        /\ g.response.body = <<<<h.fd, h.current>>>>
<1> DEFINE r == h.response
           s == r.headers \o Composed(Len(r.body))
           composed == ComposeHeaders(r)
           h1 == [h EXCEPT !.response = composed]
           failed == ErrorPage(h1)
           again == ComposeHeaders(failed.response)
           h2 == [failed EXCEPT !.response = again]
           g1 == [h1 EXCEPT !.phase = "write"]
           g2 == [h2 EXCEPT !.phase = "write"]
<1>1. g = IF Fits(composed) THEN g1 ELSE g2
  BY DEF Finish
<1>2. /\ ResponseFields(composed)
      /\ composed.headers = s
      /\ composed.preamble = r.preamble /\ composed.body = r.body /\ composed.keepAlive = r.keepAlive
  BY ComposeIs
<1>3. Fits(composed) <=> r.preamble # "large"
  BY <1>2 DEF Fits
<1> HIDE DEF composed
<1>4. HandlerFields(h1) /\ SameRequest(h1, h) /\ h1.response = composed
  BY NewResponseObject
<1> HIDE DEF h1
<1>5. /\ HandlerFields(failed) /\ SameRequest(failed, h1)
      /\ ResponseFields(failed.response)
      /\ failed.response.preamble = "small" /\ failed.response.headers = s
      /\ failed.response.body = <<<<h.fd, h.current>>>>
      /\ failed.response.keepAlive = r.keepAlive
  <2>1. ResponseFields(h1.response)
    BY <1>2, <1>4
  <2>2. PICK f : f = failed
    OBVIOUS
  <2>3. /\ HandlerFields(f) /\ SameRequest(f, h1)
        /\ ResponseFields(f.response)
        /\ f.response.preamble = "small" /\ f.response.headers = h1.response.headers
        /\ f.response.body = <<<<h1.fd, h1.current>>>>
        /\ f.response.keepAlive = h1.response.keepAlive
    BY <1>4, <2>1, <2>2, ErrorPageIs
  <2>4. QED
    BY <1>2, <1>4, <2>2, <2>3 DEF SameRequest
<1> HIDE DEF failed
<1>6. /\ ResponseFields(again)
      /\ again.headers = s \o Composed(1)
      /\ again.preamble = "small" /\ again.body = <<<<h.fd, h.current>>>>
      /\ again.keepAlive = r.keepAlive
  <2>1. Len(failed.response.body) = 1
    BY <1>5
  <2>2. PICK e : e = failed.response
    OBVIOUS
  <2>3. /\ ResponseFields(again)
        /\ again.headers = e.headers \o Composed(Len(e.body))
        /\ again.preamble = e.preamble /\ again.body = e.body /\ again.keepAlive = e.keepAlive
    BY <1>5, <2>2, ComposeIs
  <2>4. QED
    BY <1>5, <2>1, <2>2, <2>3
<1> HIDE DEF again
<1>7. HandlerFields(h2) /\ SameRequest(h2, failed) /\ h2.response = again
  BY <1>5, NewResponseObject
<1> HIDE DEF h2
<1>8. HandlerFields(g1) /\ SameRequest(g1, h1) /\ g1.phase = "write" /\ g1.response = h1.response
  BY <1>4, NewPhase
<1>9. HandlerFields(g2) /\ SameRequest(g2, h2) /\ g2.phase = "write" /\ g2.response = h2.response
  BY <1>7, NewPhase
<1> HIDE DEF g1, g2
<1>10. SameRequest(g1, h) /\ SameRequest(g2, h)
  BY <1>4, <1>5, <1>7, <1>8, <1>9 DEF SameRequest
<1>11. CASE r.preamble = "large"
  BY <1>1, <1>3, <1>6, <1>7, <1>9, <1>10, <1>11
<1>12. CASE r.preamble # "large"
  BY <1>1, <1>2, <1>3, <1>4, <1>8, <1>10, <1>12
<1>13. QED
  BY <1>11, <1>12

(* n chunks of the current request, and the body with them.                *)
Chunks(h, n) == [i \in 1..n |-> <<h.fd, h.current>>]
Longer(h, n) == h.response.body \o Chunks(h, n)

LEMMA WrittenIs ==
  ASSUME NEW h, HandlerFields(h), ResponseFields(h.response), NEW p, NEW n,
         NEW g, g = Written(h, p, n)
  PROVE  /\ HandlerFields(g) /\ SameRequest(g, h) /\ g.phase = h.phase
         /\ ResponseFields(g.response)
         /\ g.response.preamble = p /\ g.response.headers = Append(h.response.headers, AppLine)
         /\ g.response.body = Longer(h, n)
         /\ g.response.keepAlive = h.response.keepAlive
<1> DEFINE r1 == [h.response EXCEPT !.preamble = p]
           h1 == [h EXCEPT !.response = r1]
           headers == Append(h1.response.headers, AppLine)
           r2 == [h1.response EXCEPT !.headers = headers]
           h2 == [h1 EXCEPT !.response = r2]
           body == h2.response.body \o Chunks(h, n)
           r3 == [h2.response EXCEPT !.body = body]
           h3 == [h2 EXCEPT !.response = r3]
<1>1. g = h3
  BY DEF Written, Chunks
<1>2. /\ ResponseFields(r1) /\ r1.preamble = p /\ r1.headers = h.response.headers
      /\ r1.body = h.response.body /\ r1.keepAlive = h.response.keepAlive
  BY NewPreamble
<1> HIDE DEF r1
<1>3. HandlerFields(h1) /\ SameRequest(h1, h) /\ h1.phase = h.phase /\ h1.response = r1
  BY NewResponseObject
<1> HIDE DEF h1
<1>4. headers = Append(h.response.headers, AppLine)
  BY <1>2, <1>3
<1> HIDE DEF headers
<1>5. /\ ResponseFields(r2) /\ r2.headers = headers
      /\ r2.preamble = r1.preamble /\ r2.body = r1.body /\ r2.keepAlive = r1.keepAlive
  <2>1. r2 = [r1 EXCEPT !.headers = headers]
    BY <1>3
  <2> HIDE DEF r2
  <2>2. QED
    BY <1>2, <2>1, NewHeaders
<1> HIDE DEF r2
<1>6. HandlerFields(h2) /\ SameRequest(h2, h1) /\ h2.phase = h1.phase /\ h2.response = r2
  BY <1>3, NewResponseObject
<1> HIDE DEF h2
<1>7. body = h.response.body \o Chunks(h, n)
  BY <1>2, <1>5, <1>6
<1> HIDE DEF body
<1>8. /\ ResponseFields(r3) /\ r3.body = body
      /\ r3.preamble = r2.preamble /\ r3.headers = r2.headers /\ r3.keepAlive = r2.keepAlive
  <2>1. r3 = [r2 EXCEPT !.body = body]
    BY <1>6
  <2> HIDE DEF r3
  <2>2. QED
    BY <1>5, <2>1, NewBody
<1> HIDE DEF r3
<1>9. HandlerFields(h3) /\ SameRequest(h3, h2) /\ h3.phase = h2.phase /\ h3.response = r3
  BY <1>6, NewResponseObject
<1> HIDE DEF h3
<1>10. SameRequest(g, h)
  BY <1>1, <1>3, <1>6, <1>9 DEF SameRequest
<1>11. QED
  BY <1>1, <1>2, <1>3, <1>4, <1>5, <1>6, <1>7, <1>8, <1>9, <1>10 DEF Longer

-----------------------------------------------------------------------------
(***************************************************************************)
(* A response that is finished as it should be.                            *)
(***************************************************************************)
Lines == {"app", "date", "length", "end"} \X Nat

LEMMA HandlerTyped ==
  ASSUME NEW h, HandlerFields(h), ResponseFields(h.response),
         h.phase \in {"unmade", "pooled", "recv", "handle", "write"}, h.fd \in Fds \cup {NoFd},
         h.current \in Nat, h.keepAlive \in BOOLEAN, h.buffered \in Seq(Kinds),
         h.response.preamble \in {"default", "small", "large"}, h.response.headers \in Seq(Lines),
         h.response.body \in Seq(Fds \X Nat), h.response.keepAlive \in BOOLEAN
  PROVE  h \in HandlerType
<1>1. h.response \in ResponseType
  BY DEF ResponseType, ResponseFields, Lines
<1>2. QED
  BY <1>1 DEF HandlerType, HandlerFields

LEMMA HandlerTypes ==
  ASSUME NEW h \in HandlerType
  PROVE  /\ HandlerFields(h) /\ ResponseFields(h.response)
         /\ h.phase \in {"unmade", "pooled", "recv", "handle", "write"}
         /\ h.fd \in Fds \cup {NoFd} /\ h.current \in Nat /\ h.keepAlive \in BOOLEAN
         /\ h.buffered \in Seq(Kinds)
         /\ h.response.preamble \in {"default", "small", "large"}
         /\ h.response.headers \in Seq(Lines) /\ h.response.body \in Seq(Fds \X Nat)
         /\ h.response.keepAlive \in BOOLEAN
<1>1. /\ HandlerFields(h) /\ h.response \in ResponseType
      /\ h.phase \in {"unmade", "pooled", "recv", "handle", "write"}
      /\ h.fd \in Fds \cup {NoFd} /\ h.current \in Nat /\ h.keepAlive \in BOOLEAN
      /\ h.buffered \in Seq(Kinds)
  BY DEF HandlerType, HandlerFields
<1>2. PICK r \in ResponseType : r = h.response
  BY <1>1
<1>3. /\ ResponseFields(r)
      /\ r.preamble \in {"default", "small", "large"}
      /\ r.headers \in Seq(Lines) /\ r.body \in Seq(Fds \X Nat) /\ r.keepAlive \in BOOLEAN
  BY DEF ResponseType, ResponseFields, Lines
<1>4. QED
  BY <1>1, <1>2, <1>3

LEMMA ComposedType ==
  ASSUME NEW s \in Seq(Lines), NEW n \in Nat
  PROVE  s \o Composed(n) \in Seq(Lines)
<1>1. Composed(n) \in Seq(Lines)
  BY DEF Composed, Lines, DateLine, LengthLine, EmptyLine
<1>2. QED
  BY <1>1, ConcatProperties

(* A handler whose application has done its part, or whose request was     *)
(* malformed, serves its request when finish(true) returns.                *)
LEMMA FinishServes ==
  ASSUME NEW h \in HandlerType, NEW c, RestOfScript(h, c), Answering(h, c), h.fd \in Fds,
         h.response.headers \in {<< >>, <<AppLine>>}, Len(h.response.body) \in 0..1,
         \A k \in DOMAIN h.response.body : h.response.body[k] = <<h.fd, h.current>>,
         c.script[h.current] # "bad" => h.response.keepAlive = h.keepAlive,
         NEW g, g = Finish(h)
  PROVE  g \in HandlerType /\ g.phase = "write" /\ g.fd = h.fd /\ Serves(g, c)
<1> DEFINE r == h.response
           s == r.headers \o Composed(Len(r.body))
<1>1. /\ HandlerFields(h) /\ ResponseFields(r) /\ h.current \in Nat
      /\ r.headers \in Seq(Lines) /\ Len(r.body) \in Nat
  BY HandlerTypes
<1>2. /\ HandlerFields(g) /\ SameRequest(g, h) /\ g.phase = "write"
      /\ ResponseFields(g.response)
      /\ g.response.keepAlive = r.keepAlive
      /\ r.preamble # "large" => /\ g.response.preamble = r.preamble
                                 /\ g.response.headers = s
                                 /\ g.response.body = r.body
      /\ r.preamble = "large" => /\ g.response.preamble = "small"
                                 /\ g.response.headers = s \o Composed(1)
                                 /\ g.response.body = <<<<h.fd, h.current>>>>
  BY <1>1, FinishIs
<1>3. s \in Seq(Lines) /\ s \o Composed(1) \in Seq(Lines)
  BY <1>1, ComposedType
<1>4. <<<<h.fd, h.current>>>> \in Seq(Fds \X Nat)
  BY <1>1
<1>5. g \in HandlerType
  <2>1. g.response.headers \in Seq(Lines) /\ g.response.body \in Seq(Fds \X Nat)
    BY <1>2, <1>3, <1>4, HandlerTypes
  <2>2. g.response.preamble \in {"default", "small", "large"} /\ g.response.keepAlive \in BOOLEAN
    BY <1>2, HandlerTypes
  <2>3. /\ g.fd \in Fds \cup {NoFd} /\ g.current \in Nat /\ g.keepAlive \in BOOLEAN
        /\ g.buffered \in Seq(Kinds)
    BY <1>2, HandlerTypes DEF SameRequest
  <2>4. QED
    BY <1>2, <2>1, <2>2, <2>3, HandlerTyped
<1>6. RestOfScript(g, c)
  BY <1>2 DEF RestOfScript, SameRequest
<1>7. InProgress(g, c)
  BY <1>2 DEF InProgress, Answering, SameRequest
<1>8. ResponseOK(g, c)
  <2>1. \A k \in DOMAIN g.response.body : g.response.body[k] = <<g.fd, g.current>>
    <3>1. CASE r.preamble = "large"
      BY <1>2, <3>1 DEF SameRequest
    <3>2. CASE r.preamble # "large"
      BY <1>2, <3>2 DEF SameRequest
    <3>3. QED
      BY <3>1, <3>2
  <2>2. c.script[g.current] # "bad" => g.response.keepAlive = g.keepAlive
    BY <1>2 DEF SameRequest
  <2>3. HeadersOK(g.response)
    <3>1. CASE r.preamble # "large"
      BY <1>2, <3>1 DEF HeadersOK
    <3>2. CASE r.preamble = "large"
      <4>1. Len(g.response.body) = 1 /\ g.response.preamble = "small"
        BY <1>2, <3>2
      <4>2. g.response.headers = (r.headers \o Composed(Len(r.body))) \o Composed(1)
        BY <1>2, <3>2
      <4>3. QED
        BY <4>1, <4>2 DEF HeadersOK
    <3>3. QED
      BY <3>1, <3>2
  <2>4. QED
    BY <1>2, <2>1, <2>2, <2>3 DEF ResponseOK
<1>9. QED
  BY <1>2, <1>5, <1>6, <1>7, <1>8 DEF Serves, SameRequest

(* processRequest() on a handler whose requests so far were answered, and  *)
(* which has at least one more in its buffer.                              *)
LEMMA ProcessRequestServes ==
  ASSUME NEW h \in HandlerType, NEW c \in ConnType, RestOfScript(h, c), h.fd \in Fds,
         h.buffered # << >>, c.answered <= h.current,
         \A k \in 1..h.current : c.script[k] = "keep",
         NEW g, g = ProcessRequest(h)
  PROVE  g \in HandlerType /\ g.phase \in Busy /\ g.fd = h.fd /\ Serves(g, c)
<1> DEFINE kind == Head(h.buffered)
           keep == (kind = "keep")
           fresh == ResetResponse(h.response)
           rest == Tail(h.buffered)
           next == h.current + 1
           ready == [h EXCEPT !.response = fresh, !.buffered = rest,
                              !.current = next, !.keepAlive = keep]
           page == <<<<h.fd, ready.current>>>>
           b1 == [ready.response EXCEPT !.body = page]
           h1 == [ready EXCEPT !.response = b1]
           b2 == [h1.response EXCEPT !.preamble = "small"]
           bad == [h1 EXCEPT !.response = b2]
           r1 == [ready.response EXCEPT !.keepAlive = ready.keepAlive]
           g1 == [ready EXCEPT !.response = r1]
           good == [g1 EXCEPT !.phase = "handle"]
<1>1. g = IF kind = "bad" THEN Finish(bad) ELSE good
  BY DEF ProcessRequest
<1>2. /\ HandlerFields(h) /\ ResponseFields(h.response) /\ h.current \in Nat
      /\ h.buffered \in Seq(Kinds) /\ h.response.keepAlive \in BOOLEAN
  BY HandlerTypes
<1>3. /\ ResponseFields(fresh) /\ fresh.preamble = "default" /\ fresh.headers = << >>
      /\ fresh.body = << >> /\ fresh.keepAlive = h.response.keepAlive
  <2>1. PICK r : r = h.response
    OBVIOUS
  <2>2. fresh = [r EXCEPT !.preamble = "default", !.headers = << >>, !.body = << >>]
    BY <2>1 DEF ResetResponse
  <2> HIDE DEF fresh
  <2>3. ResponseFields(r)
    BY <1>2, <2>1
  <2>4. QED
    BY <2>1, <2>2, <2>3 DEF ResponseFields
<1>4. /\ rest \in Seq(Kinds) /\ Len(rest) = Len(h.buffered) - 1 /\ Len(h.buffered) \in Nat \ {0}
      /\ kind = h.buffered[1] /\ \A i \in 1..Len(rest) : rest[i] = h.buffered[i + 1]
  BY <1>2, HeadTailProperties
<1>5. next \in Nat /\ next = h.current + 1
  BY <1>2
<1>6. kind = c.script[next]
  BY <1>4 DEF RestOfScript
<1> HIDE DEF fresh, rest, next, kind
<1>7. /\ HandlerFields(ready) /\ ready.phase = h.phase /\ ready.fd = h.fd
      /\ ready.current = next /\ ready.keepAlive = keep /\ ready.buffered = rest
      /\ ready.response = fresh
  <2>1. ready = [h EXCEPT !.response = fresh, !.buffered = rest, !.current = next, !.keepAlive = keep]
    OBVIOUS
  <2> HIDE DEF keep, ready
  <2>2. QED
    BY <1>2, <2>1 DEF HandlerFields
<1> HIDE DEF ready
<1>8. ASSUME NEW x, SameRequest(x, ready) PROVE RestOfScript(x, c) /\ Answering(x, c)
  <2>1. x.current = next /\ x.buffered = rest /\ x.keepAlive = keep
    BY <1>7, <1>8 DEF SameRequest
  <2>2. c.script \in Seq(Kinds) /\ c.unread \in Seq(Kinds) /\ c.answered \in Nat
    BY DEF ConnType
  <2>3. Len(c.script) \in Nat /\ Len(c.unread) \in Nat
    BY <2>2
  <2>4. /\ Len(c.script) = next + Len(rest) + Len(c.unread)
        /\ h.current + Len(h.buffered) = next + Len(rest)
    <3>1. Len(c.script) = h.current + Len(h.buffered) + Len(c.unread)
      BY DEF RestOfScript
    <3>2. PICK n \in Nat : n = Len(h.buffered) /\ Len(rest) = n - 1
      BY <1>4
    <3>3. PICK m \in Nat : m = Len(c.unread)
      BY <2>3
    <3>4. PICK k \in Nat : k = h.current /\ next = k + 1
      BY <1>2, <1>5
    <3>5. k + n + m = next + (n - 1) + m /\ k + n = next + (n - 1)
      BY <3>4
    <3>6. QED
      BY <3>1, <3>2, <3>3, <3>4, <3>5
  <2>5. \A i \in 1..Len(rest) : rest[i] = c.script[next + i]
    <3>1. TAKE i \in 1..Len(rest)
    <3>2. i + 1 \in 1..Len(h.buffered) /\ h.current + (i + 1) = next + i
      <4>1. PICK n \in Nat : n = Len(h.buffered) /\ Len(rest) = n - 1
        BY <1>4
      <4>2. PICK k \in Nat : k = h.current /\ next = k + 1
        BY <1>2, <1>5
      <4>3. QED
        BY <4>1, <4>2
    <3>3. QED
      BY <1>4, <3>2 DEF RestOfScript
  <2>6. \A i \in 1..Len(c.unread) : c.unread[i] = c.script[next + Len(rest) + i]
    <3>1. TAKE i \in 1..Len(c.unread)
    <3>2. h.current + Len(h.buffered) + i = next + Len(rest) + i
      BY <2>4
    <3>3. c.unread[i] = c.script[h.current + Len(h.buffered) + i]
      BY DEF RestOfScript
    <3>4. QED
      BY <3>2, <3>3
  <2>7. RestOfScript(x, c)
    BY <2>1, <2>4, <2>5, <2>6 DEF RestOfScript
  <2>8. c.answered < next /\ \A k \in 1..(next - 1) : c.script[k] = "keep"
    BY <1>2, <1>5, <2>2
  <2>9. keep = (c.script[next] = "keep")
    BY <1>6
  <2>10. Answering(x, c)
    BY <2>1, <2>8, <2>9 DEF Answering
  <2>11. QED
    BY <2>7, <2>10
<1>9. CASE kind = "bad"
  <2>1. page = <<<<h.fd, next>>>> /\ page \in Seq(Fds \X Nat) /\ Len(page) = 1
    BY <1>5, <1>7
  <2>2. \A k \in DOMAIN page : page[k] = <<h.fd, next>>
    BY <2>1
  <2> HIDE DEF page
  <2>3. /\ ResponseFields(b1) /\ b1.preamble = "default" /\ b1.headers = << >>
        /\ b1.body = page /\ b1.keepAlive = h.response.keepAlive
    BY <1>3, <1>7, NewBody
  <2> HIDE DEF b1
  <2>4. HandlerFields(h1) /\ SameRequest(h1, ready) /\ h1.phase = h.phase /\ h1.response = b1
    BY <1>7 DEF HandlerFields, SameRequest
  <2> HIDE DEF h1
  <2>5. /\ ResponseFields(b2) /\ b2.preamble = "small" /\ b2.headers = << >>
        /\ b2.body = page /\ b2.keepAlive = h.response.keepAlive
    BY <2>3, <2>4, NewPreamble
  <2> HIDE DEF b2
  <2>6. HandlerFields(bad) /\ SameRequest(bad, h1) /\ bad.phase = h.phase /\ bad.response = b2
    BY <2>4, NewResponseObject
  <2> HIDE DEF bad
  <2>7. /\ bad.fd = h.fd /\ bad.current = next /\ bad.keepAlive = keep /\ bad.buffered = rest
        /\ SameRequest(bad, ready)
    BY <1>7, <2>4, <2>6 DEF SameRequest
  <2>8. bad \in HandlerType
    <3>1. h.phase \in {"unmade", "pooled", "recv", "handle", "write"} /\ keep \in BOOLEAN
      BY HandlerTypes
    <3> HIDE DEF keep
    <3>2. << >> \in Seq(Lines)
      OBVIOUS
    <3>3. QED
      BY <1>2, <1>4, <1>5, <2>1, <2>5, <2>6, <2>7, <3>1, <3>2, HandlerTyped
  <2>9. RestOfScript(bad, c) /\ Answering(bad, c)
    BY <1>8, <2>7
  <2>10. c.script[bad.current] = "bad"
    BY <1>6, <1>9, <2>7
  <2>11. /\ bad.response.headers = << >> /\ bad.response.body = page
         /\ bad.fd \in Fds
    BY <2>5, <2>6, <2>7
  <2>12. Len(bad.response.body) \in 0..1
    BY <2>1, <2>11
  <2>13. \A k \in DOMAIN bad.response.body : bad.response.body[k] = <<bad.fd, bad.current>>
    BY <2>2, <2>7, <2>11
  <2>14. g = Finish(bad)
    BY <1>1, <1>9
  <2>15. g \in HandlerType /\ g.phase = "write" /\ g.fd = bad.fd /\ Serves(g, c)
    BY <2>8, <2>9, <2>10, <2>11, <2>12, <2>13, <2>14, FinishServes
  <2>16. QED
    BY <2>7, <2>15 DEF Busy
<1>10. CASE kind # "bad"
  <2>1. /\ ResponseFields(r1) /\ r1.keepAlive = keep /\ r1.preamble = "default"
        /\ r1.headers = << >> /\ r1.body = << >>
    BY <1>3, <1>7, NewKeepAlive
  <2> HIDE DEF r1
  <2>2. HandlerFields(g1) /\ SameRequest(g1, ready) /\ g1.response = r1
    BY <1>7, NewResponseObject
  <2> HIDE DEF g1
  <2>3. HandlerFields(good) /\ SameRequest(good, g1) /\ good.phase = "handle" /\ good.response = r1
    BY <2>2, NewPhase
  <2> HIDE DEF good
  <2>4. /\ good.fd = h.fd /\ good.current = next /\ good.keepAlive = keep /\ good.buffered = rest
        /\ SameRequest(good, ready)
    BY <1>7, <2>2, <2>3 DEF SameRequest
  <2>5. good \in HandlerType
    <3>1. << >> \in Seq(Lines) /\ << >> \in Seq(Fds \X Nat) /\ keep \in BOOLEAN
      OBVIOUS
    <3> HIDE DEF keep
    <3>2. QED
      BY <1>2, <1>4, <1>5, <2>1, <2>3, <2>4, <3>1, HandlerTyped
  <2>6. RestOfScript(good, c) /\ InProgress(good, c)
    BY <1>8, <2>3, <2>4 DEF InProgress
  <2>7. ResponseOK(good, c)
    BY <2>1, <2>3, <2>4 DEF ResponseOK
  <2>8. QED
    BY <1>1, <1>10, <2>3, <2>4, <2>5, <2>6, <2>7 DEF Serves, Busy
<1>11. QED
  BY <1>9, <1>10

-----------------------------------------------------------------------------
(***************************************************************************)
(* The invariant is inductive.  IInv' is known from WorkerProofs.          *)
(***************************************************************************)
LEMMA AInit == Init => TypeOK /\ AllServe
<1> SUFFICES ASSUME Init PROVE TypeOK /\ AllServe
  OBVIOUS
<1>1. \A x \in Handlers : handler[x] = Unmade
  BY DEF Init
<1>2. Unmade \in HandlerType
  <2>1. HandlerFields(Unmade) /\ ResponseFields(Unmade.response)
    BY DEF HandlerFields, ResponseFields, Unmade, NewResponse
  <2>2. << >> \in Seq(Lines) /\ << >> \in Seq(Fds \X Nat) /\ << >> \in Seq(Kinds)
    OBVIOUS
  <2>3. /\ Unmade.phase = "unmade" /\ Unmade.fd = NoFd /\ Unmade.current = 0
        /\ Unmade.keepAlive = FALSE /\ Unmade.buffered = << >>
        /\ Unmade.response.preamble = "default" /\ Unmade.response.headers = << >>
        /\ Unmade.response.body = << >> /\ Unmade.response.keepAlive = FALSE
    BY DEF Unmade, NewResponse
  <2>4. FALSE \in BOOLEAN /\ 0 \in Nat
    OBVIOUS
  <2>5. Unmade.keepAlive \in BOOLEAN /\ Unmade.response.keepAlive \in BOOLEAN
    BY <2>3, <2>4, Zenon
  <2>6. QED
    BY <2>1, <2>2, <2>3, <2>4, <2>5, HandlerTyped
<1>3. Closed \in ConnType
  BY DEF Closed, ConnType
<1>4. \A x \in Handlers : ~Active(x)
  BY <1>1 DEF Active, Unmade
<1>5. TypeOK
  <2>1. handler \in [Handlers -> HandlerType] /\ conn \in [Fds -> ConnType]
    BY <1>2, <1>3 DEF Init
  <2>2. pool \in Seq(Handlers) /\ running \in BOOLEAN /\ epoll \subseteq Fds
    BY DEF Init
  <2>3. QED
    BY <2>1, <2>2 DEF TypeOK
<1>6. QED
  BY <1>4, <1>5 DEF AllServe

LEMMA ActiveHandler ==
  ASSUME AInv, NEW x \in Handlers, Active(x)
  PROVE  /\ handler[x] \in HandlerType /\ handler[x].fd \in Fds /\ conn[handler[x].fd] \in ConnType
         /\ Serves(handler[x], conn[handler[x].fd])
         /\ handler[x].phase \in Busy
<1>1. handler[x] \in HandlerType /\ handler[x].fd \in Fds
  BY DEF AInv, TypeOK, IInv, DescriptorsOwned
<1>2. conn[handler[x].fd] \in ConnType
  BY <1>1 DEF AInv, TypeOK
<1>3. QED
  BY <1>1, <1>2 DEF AInv, AllServe, Active, Busy

(* A busy handler goes on, on its descriptor.                              *)
LEMMA GoesOn ==
  ASSUME AInv, NEW x \in Handlers, Active(x), NEW f, f = handler[x].fd,
         NEW g \in HandlerType, g.fd = f, NEW c \in ConnType, Serves(g, c),
         handler' = [handler EXCEPT ![x] = g], conn' = [conn EXCEPT ![f] = c],
         pool' = pool, epoll' = epoll, running' = running
  PROVE  TypeOK' /\ AllServe'
<1>1. f \in Fds /\ \A y \in Handlers : y # x /\ Active(y) => handler[y].fd # f
  BY DEF AInv, IInv, DescriptorsOwned
<1>2. TypeOK /\ handler \in [Handlers -> HandlerType] /\ conn \in [Fds -> ConnType]
  BY DEF AInv, TypeOK
<1>3. TypeOK'
  BY <1>1, <1>2 DEF TypeOK
<1>4. handler'[x] = g /\ conn'[f] = c /\ \A e \in Fds : e # f => conn'[e] = conn[e]
  BY <1>1, <1>2
<1>5. \A y \in Handlers : y # x => handler'[y] = handler[y]
  BY <1>2
<1>6. ASSUME NEW y \in Handlers, Active(y)' PROVE Serves(handler'[y], conn'[handler'[y].fd])
  <2>1. CASE y = x
    BY <1>4, <2>1
  <2>2. CASE y # x
    <3>1. Active(y)
      BY <1>5, <1>6, <2>2 DEF Active
    <3>2. handler[y].fd \in Fds /\ handler[y].fd # f /\ Serves(handler[y], conn[handler[y].fd])
      BY <1>1, <2>2, <3>1, ActiveHandler
    <3>3. QED
      BY <1>4, <1>5, <2>2, <3>2
  <2>3. QED
    BY <2>1, <2>2
<1>7. AllServe'
  BY <1>6 DEF AllServe, Serves, RestOfScript, InProgress, Reading, Answering, ResponseOK, HeadersOK
<1>8. QED
  BY <1>3, <1>7

LEMMA StopServes ==
  ASSUME AInv, NEW x \in Handlers, Active(x), Stop(x), running' = running
  PROVE  TypeOK' /\ AllServe'
<1>1. PICK f \in Fds : f = handler[x].fd
  BY ActiveHandler
<1>2. TypeOK /\ handler \in [Handlers -> HandlerType] /\ conn \in [Fds -> ConnType]
  BY DEF AInv, TypeOK
<1>3. PICK g : g = [handler[x] EXCEPT !.phase = "pooled"]
  OBVIOUS
<1>4. g \in HandlerType /\ g.phase = "pooled"
  <2>1. handler[x] \in HandlerType
    BY <1>2
  <2>2. QED
    BY <1>3, <2>1 DEF HandlerType
<1>5. handler' = [handler EXCEPT ![x] = g] /\ conn' = [conn EXCEPT ![f] = Closed]
  BY <1>1, <1>3 DEF Stop
<1>6. Closed \in ConnType
  BY DEF Closed, ConnType
<1>7. TypeOK'
  <2>1. pool' \in Seq(Handlers) /\ epoll' \subseteq Fds
    BY <1>2 DEF Stop, TypeOK
  <2>2. handler' \in [Handlers -> HandlerType] /\ conn' \in [Fds -> ConnType]
    BY <1>2, <1>4, <1>5, <1>6
  <2>3. QED
    BY <1>2, <2>1, <2>2 DEF TypeOK
<1>8. ASSUME NEW y \in Handlers, Active(y)' PROVE Serves(handler'[y], conn'[handler'[y].fd])
  <2>1. y # x
    BY <1>2, <1>4, <1>5, <1>8 DEF Active
  <2>2. handler'[y] = handler[y]
    BY <1>2, <1>5, <2>1
  <2>3. Active(y)
    BY <1>8, <2>2 DEF Active
  <2>4. handler[y].fd \in Fds /\ handler[y].fd # f
    BY <1>1, <2>1, <2>3 DEF AInv, IInv, DescriptorsOwned
  <2>5. conn'[handler[y].fd] = conn[handler[y].fd]
    BY <1>2, <1>5, <2>4
  <2>6. QED
    BY <2>2, <2>3, <2>5, ActiveHandler
<1>9. AllServe'
  BY <1>8 DEF AllServe, Serves, RestOfScript, InProgress, Reading, Answering, ResponseOK, HeadersOK
<1>10. QED
  BY <1>7, <1>9

LEMMA AcceptServes ==
  ASSUME AInv, NEW x \in Handlers, NEW f \in Fds, Accept(x, f)
  PROVE  TypeOK' /\ AllServe'
<1>1. TypeOK /\ handler \in [Handlers -> HandlerType] /\ conn \in [Fds -> ConnType]
  BY DEF AInv, TypeOK
<1>2. PICK h \in HandlerType : h = handler[x]
  BY <1>1
<1>3. PICK b \in BOOLEAN : handler' = [handler EXCEPT ![x] = Started(@, f, b)]
  <2>1. Uninitialized(x) \subseteq BOOLEAN
    BY <1>2, HandlerTypes DEF Uninitialized
  <2>2. QED
    BY <2>1 DEF Accept
<1>4. PICK s \in Seq(Kinds) :
        conn' = [conn EXCEPT ![f] = [Closed EXCEPT !.open = TRUE, !.script = s, !.unread = s]]
  BY WorkerAssumption DEF Accept
<1>5. PICK g : g = Started(h, f, b)
  OBVIOUS
<1>6. /\ g \in HandlerType /\ g.phase = "recv" /\ g.fd = f
      /\ g.current = 0 /\ g.buffered = << >>
  <2>1. PICK r : r = [h.response EXCEPT !.keepAlive = b]
    OBVIOUS
  <2>2. /\ ResponseFields(r) /\ r.keepAlive = b /\ r.preamble = h.response.preamble
        /\ r.headers = h.response.headers /\ r.body = h.response.body
    <3>1. PICK q : q = h.response
      OBVIOUS
    <3>2. PICK e : e = b
      OBVIOUS
    <3>3. ResponseFields(q) /\ r = [q EXCEPT !.keepAlive = e]
      BY <2>1, <3>1, <3>2, HandlerTypes
    <3>4. /\ ResponseFields(r) /\ r.keepAlive = e /\ r.preamble = q.preamble
          /\ r.headers = q.headers /\ r.body = q.body
      BY <3>3 DEF ResponseFields
    <3>5. QED
      BY <3>1, <3>2, <3>4
  <2>3. g = [phase |-> "recv", fd |-> f, current |-> 0, keepAlive |-> h.keepAlive,
             buffered |-> << >>, response |-> r]
    BY <1>5, <2>1 DEF Started
  <2>4. /\ HandlerFields(g) /\ g.phase = "recv" /\ g.fd = f /\ g.current = 0
        /\ g.keepAlive = h.keepAlive /\ g.buffered = << >> /\ g.response = r
    BY <2>3 DEF HandlerFields
  <2>5. << >> \in Seq(Kinds) /\ 0 \in Nat
    OBVIOUS
  <2>6. g.keepAlive \in BOOLEAN /\ g.response.keepAlive \in BOOLEAN
    BY <2>2, <2>4, HandlerTypes, Zenon
  <2>7. /\ g.response.preamble \in {"default", "small", "large"}
        /\ g.response.headers \in Seq(Lines) /\ g.response.body \in Seq(Fds \X Nat)
        /\ ResponseFields(g.response)
    BY <2>2, <2>4, HandlerTypes
  <2>8. QED
    BY <2>4, <2>5, <2>6, <2>7, HandlerTyped
<1>7. PICK c : c = [Closed EXCEPT !.open = TRUE, !.script = s, !.unread = s]
  OBVIOUS
<1>8. /\ c \in ConnType /\ c.script = s /\ c.unread = s /\ c.answered = 0
  <2>1. c = [open |-> TRUE, hungUp |-> FALSE, script |-> s, unread |-> s, answered |-> 0]
    BY <1>7 DEF Closed
  <2>2. QED
    BY <2>1 DEF ConnType
<1>9. handler' = [handler EXCEPT ![x] = g] /\ conn' = [conn EXCEPT ![f] = c]
  BY <1>2, <1>3, <1>4, <1>5, <1>7
<1>10. Serves(g, c)
  <2>1. Len(s) \in Nat /\ Len(g.buffered) = 0
    BY <1>6
  <2>2. RestOfScript(g, c)
    BY <1>6, <1>8, <2>1 DEF RestOfScript
  <2>3. InProgress(g, c)
    BY <1>6, <1>8 DEF InProgress, Reading
  <2>4. ResponseOK(g, c)
    BY <1>6 DEF ResponseOK
  <2>5. QED
    BY <2>2, <2>3, <2>4 DEF Serves
<1>11. TypeOK'
  <2>1. pool' \in Seq(Handlers)
    BY AcceptOK DEF AInv, IInv, Shape
  <2>2. handler' \in [Handlers -> HandlerType] /\ conn' \in [Fds -> ConnType]
    BY <1>1, <1>6, <1>8, <1>9
  <2>3. QED
    BY <1>1, <2>1, <2>2 DEF TypeOK, Accept
<1>12. ASSUME NEW y \in Handlers, Active(y)' PROVE Serves(handler'[y], conn'[handler'[y].fd])
  <2>1. CASE y = x
    <3>1. handler'[y] = g /\ conn'[f] = c
      BY <1>1, <1>9, <2>1
    <3>2. QED
      BY <1>6, <1>10, <3>1
  <2>2. CASE y # x
    <3>1. handler'[y] = handler[y]
      BY <1>1, <1>9, <2>2
    <3>2. Active(y)
      BY <1>12, <3>1 DEF Active
    <3>3. handler[y].fd \in Fds /\ handler[y].fd # f
      BY <3>2 DEF AInv, IInv, DescriptorsOwned, Accept
    <3>4. conn'[handler[y].fd] = conn[handler[y].fd]
      BY <1>1, <1>9, <3>3
    <3>5. QED
      BY <3>1, <3>2, <3>4, ActiveHandler
  <2>3. QED
    BY <2>1, <2>2
<1>13. AllServe'
  BY <1>12 DEF AllServe, Serves, RestOfScript, InProgress, Reading, Answering, ResponseOK, HeadersOK
<1>14. QED
  BY <1>11, <1>13

(* The kernel's view of a connection, except for the script.               *)
LEMMA AnsweredSet ==
  ASSUME NEW c \in ConnType, NEW n \in Nat, NEW d, d = [c EXCEPT !.answered = n]
  PROVE  /\ d \in ConnType /\ d.answered = n
         /\ d.open = c.open /\ d.script = c.script /\ d.unread = c.unread
BY DEF ConnType

LEMMA UnreadSet ==
  ASSUME NEW c \in ConnType, NEW n \in Seq(Kinds), NEW d, d = [c EXCEPT !.unread = n]
  PROVE  /\ d \in ConnType /\ d.unread = n
         /\ d.open = c.open /\ d.script = c.script /\ d.answered = c.answered
BY DEF ConnType

LEMMA HungUpSet ==
  ASSUME NEW c \in ConnType, NEW n \in BOOLEAN, NEW d, d = [c EXCEPT !.hungUp = n]
  PROVE  /\ d \in ConnType /\ d.hungUp = n
         /\ d.open = c.open /\ d.script = c.script /\ d.unread = c.unread /\ d.answered = c.answered
BY DEF ConnType

(* requestCompleted() of a handler that has answered n requests, the       *)
(* current one at most.                                                    *)
LEMMA RequestCompletedServes ==
  ASSUME AInv, NEW x \in Handlers, handler[x].phase \in {"handle", "write"},
         NEW n \in Nat, n <= handler[x].current, RequestCompleted(x, n), running' = running
  PROVE  TypeOK' /\ AllServe'
<1>1. Active(x)
  BY DEF Active
<1>2. PICK h \in HandlerType : h = handler[x]
  BY <1>1, ActiveHandler
<1>3. PICK f \in Fds : f = h.fd
  BY <1>1, <1>2, ActiveHandler
<1>4. PICK c \in ConnType : c = conn[f]
  BY DEF AInv, TypeOK
<1>5. RestOfScript(h, c) /\ Answering(h, c)
  BY <1>1, <1>2, <1>3, <1>4, ActiveHandler DEF Serves, InProgress
<1>6. CASE ~h.keepAlive
  <2>1. Stop(x)
    BY <1>2, <1>6 DEF RequestCompleted
  <2>2. QED
    BY <1>1, <2>1, StopServes
<1>7. CASE h.keepAlive
  <2>1. PICK g : g = IF h.buffered = << >> THEN [h EXCEPT !.phase = "recv"] ELSE ProcessRequest(h)
    OBVIOUS
  <2>2. PICK d : d = [c EXCEPT !.answered = n]
    OBVIOUS
  <2>3. /\ handler' = [handler EXCEPT ![x] = g] /\ conn' = [conn EXCEPT ![f] = d]
        /\ pool' = pool /\ epoll' = epoll
    BY <1>2, <1>3, <1>4, <1>7, <2>1, <2>2 DEF RequestCompleted
  <2>4. d \in ConnType /\ d.script = c.script /\ d.unread = c.unread /\ d.answered = n
    BY <2>2, AnsweredSet
  <2>5. RestOfScript(h, d)
    BY <1>5, <2>4 DEF RestOfScript
  <2>6. h.current \in Nat /\ HandlerFields(h)
    BY HandlerTypes
  <2>7. \A k \in 1..h.current : d.script[k] = "keep"
    <3>1. TAKE k \in 1..h.current
    <3>2. k = h.current \/ k \in 1..(h.current - 1)
      BY <2>6
    <3>3. QED
      BY <1>5, <1>7, <2>4, <3>2 DEF Answering
  <2>8. g \in HandlerType /\ g.phase \in Busy /\ g.fd = h.fd /\ Serves(g, d)
    <3>1. CASE h.buffered = << >>
      <4>1. /\ g \in HandlerType /\ g.phase = "recv" /\ g.fd = f
            /\ g.current = h.current /\ g.buffered = << >>
        <5>1. g = [h EXCEPT !.phase = "recv"]
          BY <2>1, <3>1
        <5>2. g \in HandlerType
          BY <5>1 DEF HandlerType
        <5>3. SameRequest(g, h) /\ g.phase = "recv"
          BY <2>6, <5>1, NewPhase
        <5>4. QED
          BY <1>3, <3>1, <5>2, <5>3 DEF SameRequest
      <4>2. RestOfScript(g, d)
        BY <2>5, <3>1, <4>1 DEF RestOfScript
      <4>3. InProgress(g, d)
        BY <1>2, <2>4, <2>7, <4>1 DEF InProgress, Reading
      <4>4. ResponseOK(g, d)
        BY <4>1 DEF ResponseOK
      <4>5. QED
        BY <1>3, <4>1, <4>2, <4>3, <4>4 DEF Serves, Busy
    <3>2. CASE h.buffered # << >>
      BY <1>2, <1>3, <2>1, <2>4, <2>5, <2>7, <3>2, ProcessRequestServes
    <3>3. QED
      BY <3>1, <3>2
  <2>9. QED
    BY <1>1, <1>2, <1>3, <2>3, <2>4, <2>8, GoesOn
<1>8. QED
  BY <1>6, <1>7

(* A step of the application that ends in finish(true).                    *)
LEMMA FinishedServes ==
  ASSUME AInv, NEW x \in Handlers, AppFinish(x) \/ AppThrow(x)
  PROVE  TypeOK' /\ AllServe'
<1>1. Active(x) /\ handler[x].phase = "handle"
  BY DEF AppFinish, AppThrow, Active
<1>2. PICK h \in HandlerType : h = handler[x]
  BY <1>1, ActiveHandler
<1>3. PICK f \in Fds : f = h.fd
  BY <1>1, <1>2, ActiveHandler
<1>4. PICK c \in ConnType : c = conn[f]
  BY DEF AInv, TypeOK
<1>5. /\ RestOfScript(h, c) /\ Answering(h, c)
      /\ h.response.headers = << >> /\ h.response.body = << >>
      /\ h.response.keepAlive = h.keepAlive
  BY <1>1, <1>2, <1>3, <1>4, ActiveHandler DEF Serves, InProgress, ResponseOK
<1>6. PICK p \in {"default", "small", "large"}, n \in 0..1 :
        \/ handler' = [handler EXCEPT ![x] = Finish(Written(@, p, n))]
        \/ handler' = [handler EXCEPT ![x] = Finish(ErrorPage(Written(@, p, n)))]
  BY WorkerAssumption DEF AppFinish, AppThrow
<1>7. HandlerFields(h) /\ ResponseFields(h.response) /\ h.current \in Nat
  BY HandlerTypes
<1>8. PICK w : w = Written(h, p, n)
  OBVIOUS
<1>9. PICK written : written = Chunks(h, n)
  OBVIOUS
<1>10. /\ written \in Seq(Fds \X Nat) /\ Len(written) = n
       /\ \A k \in DOMAIN written : written[k] = <<h.fd, h.current>>
  <2>1. <<h.fd, h.current>> \in Fds \X Nat
    BY <1>3, <1>7
  <2>2. PICK e : e = <<h.fd, h.current>>
    OBVIOUS
  <2>3. written = [i \in 1..n |-> e]
    BY <1>9, <2>2 DEF Chunks
  <2>4. QED
    BY <2>1, <2>2, <2>3
<1>11. /\ HandlerFields(w) /\ SameRequest(w, h) /\ w.phase = h.phase
       /\ ResponseFields(w.response)
       /\ w.response.preamble = p /\ w.response.headers = <<AppLine>>
       /\ w.response.body = written /\ w.response.keepAlive = h.keepAlive
  <2>1. /\ HandlerFields(w) /\ SameRequest(w, h) /\ w.phase = h.phase
        /\ ResponseFields(w.response)
        /\ w.response.preamble = p /\ w.response.headers = Append(h.response.headers, AppLine)
        /\ w.response.body = h.response.body \o written
        /\ w.response.keepAlive = h.response.keepAlive
    <3>1. PICK q, m : q = p /\ m = n
      OBVIOUS
    <3>2. w = Written(h, q, m) /\ written = Chunks(h, m)
      BY <1>8, <1>9, <3>1
    <3>3. HandlerFields(w) /\ SameRequest(w, h) /\ w.phase = h.phase
      BY <1>7, <3>2, WrittenIs
    <3>4. ResponseFields(w.response) /\ w.response.keepAlive = h.response.keepAlive
      BY <1>7, <3>2, WrittenIs
    <3>5. w.response.preamble = q /\ w.response.headers = Append(h.response.headers, AppLine)
      BY <1>7, <3>2, WrittenIs
    <3>6. w.response.body = Longer(h, m)
      BY <1>7, <3>2, WrittenIs
    <3>7. QED
      BY <3>1, <3>2, <3>3, <3>4, <3>5, <3>6 DEF Longer
  <2>2. Append(<< >>, AppLine) = <<AppLine>>
    OBVIOUS
  <2>3. << >> \o written = written
    BY <1>10, ConcatEmptySeq
  <2>4. QED
    BY <1>5, <2>1, <2>2, <2>3
<1>12. <<AppLine>> \in Seq(Lines)
  BY DEF AppLine, Lines
<1>13. ASSUME NEW v, HandlerFields(v), SameRequest(v, h), v.phase = h.phase,
              ResponseFields(v.response), v.response.preamble \in {"default", "small", "large"},
              v.response.headers = <<AppLine>>, v.response.keepAlive = h.keepAlive,
              v.response.body \in Seq(Fds \X Nat), Len(v.response.body) \in 0..1,
              \A k \in DOMAIN v.response.body : v.response.body[k] = <<h.fd, h.current>>,
              handler' = [handler EXCEPT ![x] = Finish(v)]
       PROVE  TypeOK' /\ AllServe'
  <2>1. v \in HandlerType
    <3>1. v.fd \in Fds \cup {NoFd} /\ v.current \in Nat /\ v.buffered \in Seq(Kinds)
      BY <1>3, <1>13, HandlerTypes DEF SameRequest
    <3>2. v.keepAlive \in BOOLEAN /\ v.response.keepAlive \in BOOLEAN
      BY <1>13, HandlerTypes, Zenon DEF SameRequest
    <3>3. v.phase \in {"unmade", "pooled", "recv", "handle", "write"}
      BY <1>13, HandlerTypes
    <3>4. v.response.headers \in Seq(Lines)
      BY <1>12, <1>13
    <3>5. QED
      BY <1>13, <3>1, <3>2, <3>3, <3>4, HandlerTyped
  <2>2. RestOfScript(v, c) /\ Answering(v, c)
    BY <1>5, <1>13 DEF RestOfScript, Answering, SameRequest
  <2>3. v.fd = h.fd /\ v.current = h.current /\ v.keepAlive = h.keepAlive
    BY <1>13 DEF SameRequest
  <2>4. v.response.keepAlive = v.keepAlive
    BY <1>13, <2>3, Zenon
  <2>5. PICK g : g = Finish(v)
    OBVIOUS
  <2>6. g \in HandlerType /\ g.fd = v.fd /\ Serves(g, c)
    BY <1>3, <1>13, <2>1, <2>2, <2>3, <2>4, <2>5, FinishServes
  <2>7. conn' = [conn EXCEPT ![f] = c]
    <3>1. conn' = conn /\ conn = [e \in Fds |-> conn[e]]
      BY DEF AppFinish, AppThrow, AInv, TypeOK
    <3>2. QED
      BY <1>4, <3>1
  <2>8. pool' = pool /\ epoll' = epoll /\ running' = running
    BY DEF AppFinish, AppThrow
  <2>9. QED
    BY <1>1, <1>2, <1>3, <1>4, <1>13, <2>3, <2>5, <2>6, <2>7, <2>8, GoesOn
<1>14. CASE handler' = [handler EXCEPT ![x] = Finish(Written(@, p, n))]
  <2>1. handler' = [handler EXCEPT ![x] = Finish(w)]
    BY <1>2, <1>8, <1>14
  <2>2. QED
    BY <1>10, <1>11, <1>13, <2>1
<1>15. CASE handler' = [handler EXCEPT ![x] = Finish(ErrorPage(Written(@, p, n)))]
  <2>1. PICK v : v = ErrorPage(w)
    OBVIOUS
  <2>2. handler' = [handler EXCEPT ![x] = Finish(v)]
    BY <1>2, <1>8, <1>15, <2>1
  <2>3. /\ HandlerFields(v) /\ SameRequest(v, w) /\ v.phase = w.phase
        /\ ResponseFields(v.response)
        /\ v.response.preamble = "small" /\ v.response.headers = w.response.headers
        /\ v.response.body = <<<<w.fd, w.current>>>>
        /\ v.response.keepAlive = w.response.keepAlive
    BY <1>11, <2>1, ErrorPageIs
  <2>4. SameRequest(v, h) /\ v.response.body = <<<<h.fd, h.current>>>>
    BY <1>11, <2>3 DEF SameRequest
  <2>5. /\ v.response.body \in Seq(Fds \X Nat) /\ Len(v.response.body) = 1
        /\ \A k \in DOMAIN v.response.body : v.response.body[k] = <<h.fd, h.current>>
    BY <1>3, <1>7, <2>4
  <2>6. v.phase = h.phase /\ v.response.headers = <<AppLine>>
    BY <1>11, <2>3
  <2>7. v.response.keepAlive = h.keepAlive
    BY <1>11, <2>3, Zenon
  <2>8. v.response.preamble \in {"default", "small", "large"} /\ Len(v.response.body) \in 0..1
    BY <2>3, <2>5
  <2>9. QED
    BY <1>13, <2>2, <2>3, <2>4, <2>5, <2>6, <2>7, <2>8
<1>16. QED
  BY <1>6, <1>14, <1>15

(* The next n requests of the client arrive.                               *)
LEMMA ReadServes ==
  ASSUME AInv, NEW x \in Handlers, NEW f \in Fds, NEW n \in 1..Len(conn[f].unread), ReadCB(x, n)
  PROVE  TypeOK' /\ AllServe'
<1>1. Active(x) /\ handler[x].phase = "recv"
  BY DEF ReadCB, Active
<1>2. PICK h \in HandlerType : h = handler[x]
  BY <1>1, ActiveHandler
<1>3. PICK g \in Fds : g = h.fd
  BY <1>1, <1>2, ActiveHandler
<1>4. PICK c \in ConnType : c = conn[g]
  BY DEF AInv, TypeOK
<1>5. RestOfScript(h, c) /\ Reading(h, c)
  BY <1>1, <1>2, <1>3, <1>4, ActiveHandler DEF Serves, InProgress
<1>6. /\ c.script \in Seq(Kinds) /\ c.unread \in Seq(Kinds)
      /\ HandlerFields(h) /\ h.current \in Nat
  BY HandlerTypes DEF ConnType
<1>7. n \in 1..Len(c.unread)
  <2>1. conn[f] \in ConnType
    BY DEF AInv, TypeOK
  <2>2. Len(conn[f].unread) \in Nat
    BY <2>1 DEF ConnType
  <2>3. n <= Len(c.unread)
    BY <1>2, <1>3, <1>4 DEF ReadCB
  <2>4. QED
    BY <1>6, <2>2, <2>3
<1>8. PICK m \in Nat : m = Len(c.unread)
  BY <1>6
<1>9. PICK arrived : arrived = SubSeq(c.unread, 1, n)
  OBVIOUS
<1>10. PICK left : left = SubSeq(c.unread, n + 1, Len(c.unread))
  OBVIOUS
<1>11. /\ arrived \in Seq(Kinds) /\ Len(arrived) = n
       /\ \A i \in 1..n : arrived[i] = c.unread[i]
  BY <1>6, <1>7, <1>9, SubSeqProperties
<1>12. /\ left \in Seq(Kinds) /\ Len(left) = m - n
       /\ \A i \in 1..(m - n) : left[i] = c.unread[n + i]
  <2>1. n + 1 \in 1..(m + 1) /\ m \in n..m /\ (m - (n + 1)) + 1 = m - n
    BY <1>7, <1>8
  <2>2. /\ left = SubSeq(c.unread, n + 1, m) /\ m <= Len(c.unread)
    BY <1>8, <1>10
  <2>3. left \in Seq(Kinds) /\ Len(left) = m - n
    BY <1>6, <1>7, <1>8, <2>1, <2>2, SubSeqProperties
  <2>4. \A i \in 1..(m - n) : left[i] = c.unread[n + i]
    BY <1>6, <1>7, <1>8, <2>1, <2>2, SubSeqProperties
  <2>5. QED
    BY <2>3, <2>4
<1>13. PICK b : b = [h EXCEPT !.buffered = arrived]
  OBVIOUS
<1>14. PICK d : d = [c EXCEPT !.unread = left]
  OBVIOUS
<1>15. /\ b \in HandlerType /\ b.fd = h.fd /\ b.current = h.current
       /\ b.buffered = arrived
  <2>1. b \in HandlerType
    BY <1>11, <1>13 DEF HandlerType
  <2>2. QED
    BY <1>6, <1>13, <2>1 DEF HandlerFields
<1>16. d \in ConnType /\ d.unread = left /\ d.script = c.script /\ d.answered = c.answered
  BY <1>12, <1>14, UnreadSet
<1>17. RestOfScript(b, d)
  <2>1. Len(h.buffered) = 0 /\ Len(c.script) = h.current + m
    BY <1>5, <1>6, <1>8 DEF RestOfScript, Reading
  <2>2. \A i \in 1..m : c.unread[i] = c.script[h.current + i]
    <3>1. \A i \in 1..m : h.current + Len(h.buffered) + i = h.current + i
      BY <1>6, <2>1
    <3>2. QED
      BY <1>5, <1>8, <3>1 DEF RestOfScript
  <2>3. Len(c.script) = h.current + n + (m - n)
    <3>1. PICK k \in Nat : k = h.current
      BY <1>6
    <3>2. k + m = k + n + (m - n)
      BY <1>7
    <3>3. QED
      BY <2>1, <3>1, <3>2
  <2>4. \A i \in 1..n : arrived[i] = c.script[h.current + i]
    BY <1>7, <1>8, <1>11, <2>2
  <2>5. \A i \in 1..(m - n) : left[i] = c.script[h.current + n + i]
    <3>1. TAKE i \in 1..(m - n)
    <3>2. n + i \in 1..m /\ h.current + (n + i) = h.current + n + i
      BY <1>6, <1>7, <1>8
    <3>3. QED
      BY <1>12, <2>2, <3>2
  <2>6. QED
    BY <1>11, <1>12, <1>15, <1>16, <2>3, <2>4, <2>5 DEF RestOfScript
<1>18. PICK e : e = ProcessRequest(b)
  OBVIOUS
<1>19. e \in HandlerType /\ e.phase \in Busy /\ e.fd = b.fd /\ Serves(e, d)
  <2>1. b.buffered # << >>
    BY <1>7, <1>11, <1>15
  <2>2. d.answered <= b.current /\ \A k \in 1..b.current : d.script[k] = "keep"
    BY <1>5, <1>15, <1>16 DEF Reading
  <2>3. QED
    BY <1>3, <1>15, <1>16, <1>17, <1>18, <2>1, <2>2, ProcessRequestServes
<1>20. /\ handler' = [handler EXCEPT ![x] = e] /\ conn' = [conn EXCEPT ![g] = d]
       /\ pool' = pool /\ epoll' = epoll /\ running' = running
  BY <1>2, <1>3, <1>4, <1>9, <1>10, <1>13, <1>14, <1>18 DEF ReadCB
<1>21. QED
  BY <1>1, <1>2, <1>3, <1>15, <1>16, <1>19, <1>20, GoesOn

(* The client hangs up: nothing that a handler relies on changes.          *)
LEMMA HangUpServes ==
  ASSUME AInv, NEW f \in Fds, HangUp(f)
  PROVE  TypeOK' /\ AllServe'
<1>1. TypeOK /\ conn \in [Fds -> ConnType]
  BY DEF AInv, TypeOK
<1>2. PICK c \in ConnType : c = conn[f]
  BY <1>1
<1>3. PICK d : d = [c EXCEPT !.hungUp = TRUE]
  OBVIOUS
<1>4. /\ d \in ConnType /\ d.script = c.script /\ d.unread = c.unread
      /\ d.answered = c.answered
  BY <1>3, HungUpSet
<1>5. /\ conn' = [conn EXCEPT ![f] = d]
      /\ UNCHANGED <<running, pool, handler, epoll>>
  BY <1>2, <1>3 DEF HangUp
<1>6. TypeOK'
  BY <1>1, <1>4, <1>5 DEF TypeOK
<1>7. ASSUME NEW y \in Handlers, Active(y)' PROVE Serves(handler'[y], conn'[handler'[y].fd])
  <2>1. handler'[y] = handler[y] /\ Active(y)
    BY <1>5, <1>7 DEF Active
  <2>2. PICK g \in Fds : g = handler[y].fd
    BY <2>1, ActiveHandler
  <2>3. Serves(handler[y], conn[g])
    BY <2>1, <2>2, ActiveHandler
  <2>4. (g # f => conn'[g] = conn[g]) /\ (g = f => conn'[g] = d)
    BY <1>1, <1>5
  <2>5. Serves(handler[y], conn[g]) => (g = f => Serves(handler[y], d))
    BY <1>2, <1>4 DEF Serves, RestOfScript, InProgress, Reading, Answering, ResponseOK
  <2>6. QED
    BY <2>1, <2>2, <2>3, <2>4, <2>5
<1>8. AllServe'
  BY <1>7 DEF AllServe, Serves, RestOfScript, InProgress, Reading, Answering, ResponseOK, HeadersOK
<1>9. QED
  BY <1>6, <1>8

LEMMA AStep == AInv /\ [Next]_vars => AInv'
<1> SUFFICES ASSUME AInv, [Next]_vars PROVE AInv'
  OBVIOUS
<1>1. IInv'
  BY StepInv DEF AInv
<1>2. TypeOK' /\ AllServe'
  <2>1. ASSUME NEW x \in Handlers, NEW f \in Fds, Accept(x, f) PROVE TypeOK' /\ AllServe'
    BY <2>1, AcceptServes
  <2>2. ASSUME handler' = handler, conn' = conn, pool' = pool, epoll' = epoll,
               running' \in BOOLEAN
        PROVE  TypeOK' /\ AllServe'
    <3>1. TypeOK'
      BY <2>2 DEF AInv, TypeOK
    <3>2. AllServe'
      <4>1. AllServe
        BY DEF AInv
      <4>2. QED
        BY <2>2, <4>1 DEF AllServe, Active
    <3>3. QED
      BY <3>1, <3>2
  <2>3. CASE AcceptError
    BY <2>2, <2>3 DEF AcceptError
  <2>4. ASSUME NEW x \in Handlers, ReadEnd(x) PROVE TypeOK' /\ AllServe'
    BY <2>4, StopServes DEF ReadEnd, Active
  <2>5. ASSUME NEW x \in Handlers, NEW f \in Fds, NEW n \in 1..Len(conn[f].unread), ReadCB(x, n)
        PROVE  TypeOK' /\ AllServe'
    BY <2>5, ReadServes
  <2>6. ASSUME NEW x \in Handlers, AppFinish(x) \/ AppThrow(x) PROVE TypeOK' /\ AllServe'
    BY <2>6, FinishedServes
  <2>7. ASSUME NEW x \in Handlers, AppFinishUnflushed(x) PROVE TypeOK' /\ AllServe'
    <3>1. Active(x) /\ handler[x].phase = "handle"
      BY <2>7 DEF AppFinishUnflushed, Active
    <3>2. PICK n : n = conn[handler[x].fd].answered
      OBVIOUS
    <3>3. n \in Nat /\ n <= handler[x].current
      <4>1. n \in Nat /\ handler[x].current \in Nat
        BY <3>1, <3>2, ActiveHandler, HandlerTypes DEF ConnType
      <4>2. n < handler[x].current
        BY <3>1, <3>2, ActiveHandler DEF Serves, InProgress, Answering
      <4>3. QED
        BY <4>1, <4>2
    <3>4. QED
      BY <2>7, <3>1, <3>2, <3>3, RequestCompletedServes DEF AppFinishUnflushed
  <2>8. ASSUME NEW x \in Handlers, AppAbort(x) PROVE TypeOK' /\ AllServe'
    BY <2>8, StopServes DEF AppAbort, Active
  <2>9. ASSUME NEW x \in Handlers, WriteDone(x) PROVE TypeOK' /\ AllServe'
    <3>1. Active(x) /\ handler[x].phase = "write"
      BY <2>9 DEF WriteDone, Active
    <3>2. PICK n \in Nat : n = handler[x].current
      BY <3>1, ActiveHandler, HandlerTypes
    <3>3. QED
      BY <2>9, <3>1, <3>2, RequestCompletedServes DEF WriteDone
  <2>10. ASSUME NEW x \in Handlers, WriteFailed(x) PROVE TypeOK' /\ AllServe'
    BY <2>10, StopServes DEF WriteFailed, Active
  <2>11. ASSUME NEW f \in Fds, HangUp(f) PROVE TypeOK' /\ AllServe'
    BY <2>11, HangUpServes
  <2>12. CASE UNCHANGED vars
    <3>1. running \in BOOLEAN
      BY DEF AInv, TypeOK
    <3>2. QED
      BY <2>2, <2>12, <3>1 DEF vars
  <2>13. QED
    BY <2>1, <2>3, <2>4, <2>5, <2>6, <2>7, <2>8, <2>9, <2>10, <2>11, <2>12
    DEF Next, Read, App, Write, Exited
<1>3. QED
  BY <1>1, <1>2 DEF AInv

-----------------------------------------------------------------------------
(***************************************************************************)
(* The lines of the headers.                                               *)
(***************************************************************************)
LEMMA LinesDiffer ==
  ASSUME NEW n \in Nat
  PROVE  /\ AppLine # DateLine /\ AppLine # LengthLine(n) /\ AppLine # EmptyLine
         /\ DateLine # LengthLine(n) /\ DateLine # EmptyLine /\ LengthLine(n) # EmptyLine
         /\ AppLine[1] # "length" /\ DateLine[1] # "length" /\ EmptyLine[1] # "length"
         /\ LengthLine(n)[1] = "length"
BY DEF AppLine, DateLine, LengthLine, EmptyLine

(* Headers of one block, and of two.                                       *)
Once(own, n)  == own \o Composed(n)
Twice(own, n) == Once(own, n) \o Composed(1)

(* What stands in them, line by line, behind m headers of the application. *)
OneBlockAt(H, m, n) ==
  /\ H \in Seq(Lines) /\ m \in 0..1 /\ DOMAIN H = 1..(m + 3) /\ Len(H) = m + 3
  /\ H[m + 1] = DateLine /\ H[m + 2] = LengthLine(n) /\ H[m + 3] = EmptyLine
  /\ m = 1 => H[1] = AppLine

TwoBlocksAt(H, m, n) ==
  /\ m \in 0..1 /\ DOMAIN H = 1..(m + 6)
  /\ H[m + 1] = DateLine /\ H[m + 2] = LengthLine(n) /\ H[m + 3] = EmptyLine
  /\ H[m + 4] = DateLine /\ H[m + 5] = LengthLine(1) /\ H[m + 6] = EmptyLine
  /\ m = 1 => H[1] = AppLine

(* One composed block behind a header of the application, or none.         *)
LEMMA OneBlock ==
  ASSUME NEW own \in {<< >>, <<AppLine>>}, NEW n \in Nat,
         NEW H, H = Once(own, n)
  PROVE  \E m : OneBlockAt(H, m, n)
<1>a. PICK m : m = Len(own)
  OBVIOUS
<1>1. /\ Composed(n) \in Seq(Lines) /\ Len(Composed(n)) = 3
      /\ Composed(n)[1] = DateLine /\ Composed(n)[2] = LengthLine(n) /\ Composed(n)[3] = EmptyLine
  BY DEF Composed, Lines, DateLine, LengthLine, EmptyLine
<1>2. own \in Seq(Lines) /\ Len(own) \in 0..1 /\ (Len(own) = 1 => own[1] = AppLine)
  <2>1. AppLine \in Lines
    BY DEF AppLine, Lines
  <2>2. CASE own = << >>
    BY <2>2
  <2>3. CASE own = <<AppLine>>
    BY <2>1, <2>3
  <2>4. QED
    BY <2>2, <2>3
<1>3. PICK c : c = Composed(n)
  OBVIOUS
<1>4. /\ own \o c \in Seq(Lines) /\ Len(own \o c) = Len(own) + Len(c)
      /\ \A i \in 1..Len(own) + Len(c) : (own \o c)[i] = IF i <= Len(own) THEN own[i] ELSE c[i - Len(own)]
  BY <1>1, <1>2, <1>3, ConcatProperties
<1>5. H = own \o c
  BY <1>3 DEF Once
<1>6. m \in 0..1
  BY <1>2, <1>a
<1>7. /\ H \in Seq(Lines) /\ Len(H) = m + 3
      /\ \A i \in 1..(m + 3) : H[i] = IF i <= m THEN own[i] ELSE c[i - m]
  <2>1. Len(own) = m /\ Len(c) = 3
    BY <1>1, <1>3, <1>a
  <2>2. QED
    BY <1>4, <1>5, <2>1
<1>8. DOMAIN H = 1..(m + 3)
  BY <1>7
<1>9. H[m + 1] = c[1] /\ H[m + 2] = c[2] /\ H[m + 3] = c[3] /\ (m = 1 => H[1] = own[1])
  <2>1. CASE m = 0
    BY <1>7, <2>1
  <2>2. CASE m = 1
    BY <1>7, <2>2
  <2>3. QED
    BY <1>6, <2>1, <2>2
<1>10. OneBlockAt(H, m, n)
  BY <1>1, <1>2, <1>3, <1>6, <1>7, <1>8, <1>9, <1>a DEF OneBlockAt
<1>11. QED
  BY <1>10

(* The second block, behind the first.                                     *)
LEMMA TwoBlocks ==
  ASSUME NEW own \in {<< >>, <<AppLine>>}, NEW n \in Nat,
         NEW H, H = Twice(own, n)
  PROVE  \E m : TwoBlocksAt(H, m, n)
<1>1. /\ Composed(1) \in Seq(Lines) /\ Len(Composed(1)) = 3
      /\ Composed(1)[1] = DateLine /\ Composed(1)[2] = LengthLine(1) /\ Composed(1)[3] = EmptyLine
  BY DEF Composed, Lines, DateLine, LengthLine, EmptyLine
<1>2. PICK a : a = Once(own, n)
  OBVIOUS
<1>3. PICK m : OneBlockAt(a, m, n)
  BY <1>2, OneBlock
<1>4. /\ a \in Seq(Lines) /\ m \in 0..1 /\ Len(a) = m + 3
      /\ a[m + 1] = DateLine /\ a[m + 2] = LengthLine(n) /\ a[m + 3] = EmptyLine
      /\ m = 1 => a[1] = AppLine
  BY <1>3 DEF OneBlockAt
<1>5. PICK c : c = Composed(1)
  OBVIOUS
<1>6. /\ a \o c \in Seq(Lines) /\ Len(a \o c) = Len(a) + Len(c)
      /\ \A i \in 1..Len(a) + Len(c) : (a \o c)[i] = IF i <= Len(a) THEN a[i] ELSE c[i - Len(a)]
  BY <1>1, <1>4, <1>5, ConcatProperties
<1>7. H = a \o c
  BY <1>2, <1>5 DEF Twice
<1>8. /\ H \in Seq(Lines) /\ Len(H) = m + 6
      /\ \A i \in 1..(m + 6) : H[i] = IF i <= m + 3 THEN a[i] ELSE c[i - (m + 3)]
  <2>1. Len(a) = m + 3 /\ Len(c) = 3
    BY <1>1, <1>4, <1>5
  <2>2. Len(a) + Len(c) = m + 6
    BY <1>4, <2>1
  <2>3. QED
    BY <1>6, <1>7, <2>1, <2>2
<1>9. DOMAIN H = 1..(m + 6)
  BY <1>4, <1>8
<1>10. /\ H[m + 1] = a[m + 1] /\ H[m + 2] = a[m + 2] /\ H[m + 3] = a[m + 3]
       /\ H[m + 4] = c[1] /\ H[m + 5] = c[2] /\ H[m + 6] = c[3]
       /\ (m = 1 => H[1] = a[1])
  <2>1. CASE m = 0
    BY <1>8, <2>1
  <2>2. CASE m = 1
    BY <1>8, <2>2
  <2>3. QED
    BY <1>4, <2>1, <2>2
<1>11. TwoBlocksAt(H, m, n)
  BY <1>1, <1>4, <1>5, <1>9, <1>10 DEF TwoBlocksAt
<1>12. QED
  BY <1>11

(* One block is what a client can frame.                                   *)
LEMMA OneBlockFramed ==
  ASSUME NEW r, Len(r.body) \in Nat, NEW own \in {<< >>, <<AppLine>>},
         r.headers = own \o Composed(Len(r.body))
  PROVE  Framed(r)
<1>1. PICK n \in Nat : n = Len(r.body)
  OBVIOUS
<1>2. PICK H : H = r.headers
  OBVIOUS
<1>3. PICK m : OneBlockAt(H, m, n)
  <2>1. H = Once(own, n)
    BY <1>1, <1>2 DEF Once
  <2>2. QED
    BY <2>1, OneBlock
<1>4. /\ m \in 0..1 /\ DOMAIN H = 1..(m + 3) /\ Len(H) = m + 3
      /\ H[m + 1] = DateLine /\ H[m + 2] = LengthLine(n) /\ H[m + 3] = EmptyLine
      /\ m = 1 => H[1] = AppLine
  BY <1>3 DEF OneBlockAt
<1>5. \A k \in DOMAIN H : \/ k = 1 /\ H[k] = AppLine /\ m = 1
                          \/ k = m + 1 /\ H[k] = DateLine
                          \/ k = m + 2 /\ H[k] = LengthLine(n)
                          \/ k = m + 3 /\ H[k] = EmptyLine
  BY <1>4
<1>6. PICK lengths : lengths = {k \in DOMAIN H : H[k][1] = "length"}
  OBVIOUS
<1>7. lengths = {m + 2}
  <2>1. m + 2 \in DOMAIN H /\ H[m + 2][1] = "length"
    BY <1>4, LinesDiffer
  <2>2. \A k \in DOMAIN H : H[k][1] = "length" => k = m + 2
    BY <1>5, LinesDiffer
  <2>3. QED
    BY <1>6, <2>1, <2>2
<1>8. Cardinality(lengths) = 1
  BY <1>7, FS_Singleton
<1>9. \A k \in DOMAIN H : H[k] = EmptyLine <=> k = Len(H)
  <2>1. TAKE k \in DOMAIN H
  <2>2. CASE k = m + 3
    BY <1>4, <2>2
  <2>3. CASE k # m + 3
    BY <1>4, <1>5, <2>3, LinesDiffer
  <2>4. QED
    BY <2>2, <2>3
<1>10. QED
  BY <1>1, <1>2, <1>4, <1>6, <1>7, <1>8, <1>9 DEF Framed

(* Two blocks have two dates.                                              *)
LEMMA TwoBlocksDated ==
  ASSUME NEW r, NEW n \in Nat, NEW own \in {<< >>, <<AppLine>>},
         r.headers = (own \o Composed(n)) \o Composed(1)
  PROVE  Cardinality({k \in DOMAIN r.headers : r.headers[k] = DateLine}) = 2
<1>1. PICK H : H = r.headers
  OBVIOUS
<1>2. PICK m : TwoBlocksAt(H, m, n)
  <2>1. H = Twice(own, n)
    BY <1>1 DEF Once, Twice
  <2>2. QED
    BY <2>1, TwoBlocks
<1>3. /\ m \in 0..1 /\ DOMAIN H = 1..(m + 6)
      /\ H[m + 1] = DateLine /\ H[m + 2] = LengthLine(n) /\ H[m + 3] = EmptyLine
      /\ H[m + 4] = DateLine /\ H[m + 5] = LengthLine(1) /\ H[m + 6] = EmptyLine
      /\ m = 1 => H[1] = AppLine
  BY <1>2 DEF TwoBlocksAt
<1>4. \A k \in DOMAIN H : k \in {m + 1, m + 4} \/ H[k] \in {AppLine, LengthLine(n), LengthLine(1), EmptyLine}
  BY <1>3
<1>5. {k \in DOMAIN H : H[k] = DateLine} = {m + 1, m + 4}
  <2>1. m + 1 \in DOMAIN H /\ m + 4 \in DOMAIN H
    BY <1>3
  <2>2. \A k \in DOMAIN H : H[k] = DateLine => k \in {m + 1, m + 4}
    <3>1. DateLine \notin {AppLine, LengthLine(n), LengthLine(1), EmptyLine}
      BY LinesDiffer
    <3>2. QED
      BY <1>4, <3>1
  <2>3. QED
    BY <1>3, <2>1, <2>2
<1>6. Cardinality({m + 1, m + 4}) = 2
  <2>1. IsFiniteSet({m + 1}) /\ Cardinality({m + 1}) = 1
    BY FS_Singleton
  <2>2. m + 4 \notin {m + 1} /\ {m + 1, m + 4} = {m + 1} \cup {m + 4}
    BY <1>3
  <2>3. Cardinality({m + 1} \cup {m + 4}) = 1 + 1
    BY <2>1, <2>2, FS_AddElement
  <2>4. QED
    BY <2>2, <2>3
<1>7. QED
  BY <1>1, <1>5, <1>6

(* The header of the application is in front of all blocks, if at all.     *)
LEMMA OneAppLine ==
  ASSUME NEW r, Len(r.body) \in Nat, HeadersOK(r)
  PROVE  Cardinality({k \in DOMAIN r.headers : r.headers[k] = AppLine}) <= 1
<1>1. PICK b \in Nat : b = Len(r.body)
  OBVIOUS
<1>2. PICK H : H = r.headers
  OBVIOUS
<1>3. PICK own \in {<< >>, <<AppLine>>} :
        \/ H = own \o Composed(b)
        \/ \E n \in 0..1 : H = (own \o Composed(n)) \o Composed(1)
  BY <1>1, <1>2 DEF HeadersOK
<1>4. PICK S : S = {k \in DOMAIN H : H[k] = AppLine}
  OBVIOUS
<1>5. S \subseteq {1}
  <2>1. CASE H = own \o Composed(b)
    <3>1. PICK m : OneBlockAt(H, m, b)
      <4>1. H = Once(own, b)
        BY <2>1 DEF Once
      <4>2. QED
        BY <4>1, OneBlock
    <3>2. /\ m \in 0..1 /\ DOMAIN H = 1..(m + 3)
          /\ H[m + 1] = DateLine /\ H[m + 2] = LengthLine(b) /\ H[m + 3] = EmptyLine
      BY <3>1 DEF OneBlockAt
    <3>3. \A k \in DOMAIN H : k = 1 \/ H[k] \in {DateLine, LengthLine(b), EmptyLine}
      BY <3>2
    <3>4. AppLine \notin {DateLine, LengthLine(b), EmptyLine}
      BY LinesDiffer
    <3>5. QED
      BY <1>4, <3>3, <3>4
  <2>2. CASE \E n \in 0..1 : H = (own \o Composed(n)) \o Composed(1)
    <3>1. PICK n \in 0..1 : H = (own \o Composed(n)) \o Composed(1)
      BY <2>2, Zenon
    <3>2. PICK m : TwoBlocksAt(H, m, n)
      <4>1. n \in Nat /\ H = Twice(own, n)
        BY <3>1 DEF Once, Twice
      <4>2. QED
        BY <4>1, TwoBlocks
    <3>3. /\ m \in 0..1 /\ DOMAIN H = 1..(m + 6)
          /\ H[m + 1] = DateLine /\ H[m + 2] = LengthLine(n) /\ H[m + 3] = EmptyLine
          /\ H[m + 4] = DateLine /\ H[m + 5] = LengthLine(1) /\ H[m + 6] = EmptyLine
      BY <3>2 DEF TwoBlocksAt
    <3>4. \A k \in DOMAIN H : k = 1 \/ H[k] \in {DateLine, LengthLine(n), LengthLine(1), EmptyLine}
      BY <3>3
    <3>5. AppLine \notin {DateLine, LengthLine(n), LengthLine(1), EmptyLine}
      BY LinesDiffer
    <3>6. QED
      BY <1>4, <3>4, <3>5
  <2>3. QED
    BY <1>3, <2>1, <2>2
<1>6. Cardinality(S) <= 1
  <2>1. IsFiniteSet({1}) /\ Cardinality({1}) = 1
    BY FS_Singleton
  <2>2. Cardinality(S) <= Cardinality({1})
    BY <1>5, <2>1, FS_Subset
  <2>3. QED
    BY <2>1, <2>2
<1>7. QED
  BY <1>2, <1>4, <1>6

-----------------------------------------------------------------------------
(***************************************************************************)
(* What the invariant says of a handler that writes.                       *)
(***************************************************************************)
LEMMA WritingHandler ==
  ASSUME AInv, NEW x \in Handlers, Writing(x)
  PROVE  LET h == handler[x]
             c == conn[h.fd]
         IN  /\ Answering(h, c)
             /\ \A k \in DOMAIN h.response.body : h.response.body[k] = <<h.fd, h.current>>
             /\ c.script[h.current] # "bad" => h.response.keepAlive = h.keepAlive
             /\ HeadersOK(h.response) /\ Len(h.response.body) \in Nat
<1>1. Active(x) /\ handler[x].phase = "write"
  BY DEF Writing, Active
<1>2. Serves(handler[x], conn[handler[x].fd]) /\ handler[x] \in HandlerType
  BY <1>1, ActiveHandler
<1>3. Len(handler[x].response.body) \in Nat
  BY <1>2, HandlerTypes
<1>4. QED
  BY <1>1, <1>2, <1>3 DEF Serves, InProgress, ResponseOK

LEMMA ImpliesAnswers == AInv => AnswersTheirRequests
<1> SUFFICES ASSUME AInv, NEW x \in Handlers, Writing(x)
             PROVE  LET h == handler[x] IN
                    /\ conn[h.fd].answered < h.current
                    /\ \A k \in DOMAIN h.response.body : h.response.body[k] = <<h.fd, h.current>>
                    /\ Cardinality({k \in DOMAIN h.response.headers :
                                       h.response.headers[k] = AppLine}) <= 1
  BY DEF AnswersTheirRequests
<1>1. QED
  BY WritingHandler, OneAppLine DEF Answering

LEMMA ImpliesAnnounced == AInv => KeepAliveAnnounced
<1> SUFFICES ASSUME AInv, NEW x \in Handlers, Writing(x),
                    conn[handler[x].fd].script[handler[x].current] # "bad"
             PROVE  handler[x].response.keepAlive
                      = (conn[handler[x].fd].script[handler[x].current] = "keep")
  BY DEF KeepAliveAnnounced
<1>1. QED
  BY WritingHandler, Zenon DEF Answering

LEMMA ImpliesNothingAfterClose == AInv => NothingAfterClose
<1> SUFFICES ASSUME AInv, NEW x \in Handlers, Active(x), NEW k \in 1..(handler[x].current - 1)
             PROVE  conn[handler[x].fd].script[k] = "keep"
  BY DEF NothingAfterClose
<1>1. handler[x].current \in Nat /\ InProgress(handler[x], conn[handler[x].fd])
  BY ActiveHandler, HandlerTypes DEF Serves
<1>2. k \in 1..handler[x].current
  BY <1>1
<1>3. QED
  BY <1>1, <1>2 DEF InProgress, Reading, Answering

LEMMA ImpliesFramed == AInv => FramedUnlessRefused
<1> SUFFICES ASSUME AInv, NEW x \in Handlers, Writing(x), NEW r, r = handler[x].response
             PROVE  \/ Framed(r)
                    \/ /\ r.preamble = "small"
                       /\ Len(r.body) = 1
                       /\ Cardinality({k \in DOMAIN r.headers : r.headers[k] = DateLine}) = 2
  BY DEF FramedUnlessRefused
<1>1. HeadersOK(r) /\ Len(r.body) \in Nat
  BY WritingHandler
<1>2. PICK own \in {<< >>, <<AppLine>>} :
        \/ r.headers = own \o Composed(Len(r.body))
        \/ /\ r.preamble = "small" /\ Len(r.body) = 1
           /\ \E n \in 0..1 : r.headers = (own \o Composed(n)) \o Composed(1)
  BY <1>1 DEF HeadersOK
<1>3. CASE r.headers = own \o Composed(Len(r.body))
  BY <1>1, <1>3, OneBlockFramed
<1>4. CASE /\ r.preamble = "small" /\ Len(r.body) = 1
           /\ \E n \in 0..1 : r.headers = (own \o Composed(n)) \o Composed(1)
  <2>1. PICK n \in 0..1 : r.headers = (own \o Composed(n)) \o Composed(1)
    BY <1>4, Zenon
  <2>2. n \in Nat
    OBVIOUS
  <2>3. QED
    BY <1>4, <2>1, <2>2, TwoBlocksDated
<1>5. QED
  BY <1>2, <1>3, <1>4

LEMMA AInvHolds == Spec => []AInv
<1>1. Init => AInv
  BY InitInv, AInit DEF AInv
<1>2. QED
  BY <1>1, AStep, PTL DEF Spec

-----------------------------------------------------------------------------
(* The state of a worker keeps its type through every reuse of a handler,  *)
(* the requests and responses it holds included.                           *)
THEOREM WorkerTyped == Spec => []TypeOK
<1>1. AInv => TypeOK
  BY DEF AInv
<1>2. QED
  BY <1>1, AInvHolds, PTL

(* Each response that is written answers a request that was not answered   *)
(* before, on the descriptor it came from, and holds what was written for  *)
(* that request and nothing else, whoever used the response object before. *)
THEOREM AnswersBelongToRequests == Spec => []AnswersTheirRequests
BY AInvHolds, ImpliesAnswers, PTL

(* An answer to a well-formed request says that the connection stays open  *)
(* exactly when the client asked for that.                                 *)
THEOREM KeepAliveIsAnnounced == Spec => []KeepAliveAnnounced
BY AInvHolds, ImpliesAnnounced, PTL

(* Nothing is processed behind a request that ends the connection, however *)
(* much the client has pipelined.                                          *)
THEOREM NothingIsDoneAfterClose == Spec => []NothingAfterClose
BY AInvHolds, ImpliesNothingAfterClose, PTL

(* A response can be framed by the client, unless status and content type  *)
(* were refused, and then it is one error page behind two blocks of        *)
(* headers.                                                                *)
THEOREM ResponsesAreFramed == Spec => []FramedUnlessRefused
BY AInvHolds, ImpliesFramed, PTL

=============================================================================
