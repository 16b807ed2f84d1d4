----------------------------- MODULE WireProofs -----------------------------
(***************************************************************************)
(* The pipes, for any number of frames, threads and any capacity: types,   *)
(* one writer at a time, that the pipes implement Channel, that what was   *)
(* read is a prefix of what was written, and the order of what is relayed. *)
(***************************************************************************)
EXTENDS Wire, Lemmas

Part == {"header", "body", "other"}

\* The frames a pipe is made for.
Carries(p) ==
    CASE p = "cin" -> ClientFrame
      [] p = "sin" -> ClientFrame \cup CallFrame
      [] p = "sout" -> ServerFrame
      [] OTHER -> ServerFrame \cup Line

Parcel == {x \in Pipe \X Frame : x[2] \in Carries(x[1])}

LEMMA CarriesFrames == \A p \in Pipe : Carries(p) \subseteq Frame
  BY DEF Pipe, Carries, Frame

-----------------------------------------------------------------------------
(* Types.                                                                   *)

PipeTypes ==
    /\ pipe \in [Pipe -> Seq(Token)] /\ header \in [Pipe -> Frame \cup {None}]
    /\ \A p \in Pipe : /\ pipe[p] \in Seq(Carries(p) \X Part) /\ Len(pipe[p]) <= Capacity
                       /\ header[p] \in Carries(p) \cup {None}
    /\ ended \subseteq Pipe \cup Worker /\ gone \in {"no", "server", "proxy"}
    /\ sent \in [Pipe -> Seq(Frame)] /\ got \in [Pipe -> Seq(Frame \cup {Torn})]

\* A thread that was started for a call has nothing else to write.
ThreadTypes ==
    /\ out \in [Thread -> Seq(Parcel)]
    /\ \A c \in CallFrame : out[c] \in {<<>>, <<<<"sin", c>>>>}
    /\ spawning \in [Thread -> CallFrame \cup {None}]
    /\ queue \in Seq(ServerFrame)

LockTypes ==
    /\ locked \subseteq Pipe \X Thread /\ halfway \subseteq Thread
    /\ begun \subseteq ClientFrame \cup CallFrame \cup ServerFrame

Types == PipeTypes /\ ThreadTypes /\ LockTypes

\* What a thread has in hand.
LEMMA InHand ==
    ASSUME Types, NEW t \in Thread, out[t] # <<>>
    PROVE /\ Target(t) \in Pipe /\ ThisFrame(t) \in Carries(Target(t))
          /\ ThisFrame(t) \in Frame
          /\ Tail(out[t]) \in Seq(Parcel)
          /\ t \in CallFrame => Tail(out[t]) = <<>>
<1>1. out[t] \in Seq(Parcel)
  BY DEF Types, ThreadTypes
<1>2. Head(out[t]) \in Parcel /\ Tail(out[t]) \in Seq(Parcel)
  BY <1>1
<1>3. t \in CallFrame => Tail(out[t]) = <<>>
  <2> SUFFICES ASSUME t \in CallFrame PROVE Tail(out[t]) = <<>>
    OBVIOUS
  <2>1. out[t] = <<<<"sin", t>>>>
    BY DEF Types, ThreadTypes
  <2> QED
    BY <2>1
<1> QED
  BY <1>2, <1>3 DEF Parcel, Target, ThisFrame

LEMMA ReaderThread == \A p \in Pipe : Reader(p) \in Thread \ CallFrame
  BY ThreadAssumption DEF Pipe, Reader, Thread

LEMMA ToTypes ==
    ASSUME NEW p \in Pipe, NEW s \in Seq(Carries(p))
    PROVE To(p, s) \in Seq(Parcel)
<1>1. \A i \in 1..Len(s) : s[i] \in Carries(p)
  OBVIOUS
<1>2. DOMAIN s = 1..Len(s) /\ Len(s) \in Nat
  OBVIOUS
<1>3. \A i \in 1..Len(s) : <<p, s[i]>> \in Parcel
  BY <1>1, CarriesFrames DEF Parcel
<1>4. To(p, s) = [i \in 1..Len(s) |-> <<p, s[i]>>]
  BY <1>2 DEF To
<1> QED
  BY <1>2, <1>3, <1>4

LEMMA OneParcel ==
    ASSUME NEW p \in Pipe, NEW f \in Carries(p)
    PROVE To(p, <<f>>) = <<<<p, f>>>> /\ To(p, <<f>>) \in Seq(Parcel)
<1>1. <<f>> \in Seq(Carries(p))
  OBVIOUS
<1>2. To(p, <<f>>) \in Seq(Parcel)
  BY <1>1, ToTypes
<1>3. To(p, <<f>>) = <<<<p, f>>>>
  BY DEF To
<1> QED
  BY <1>2, <1>3

LEMMA RelayedTypes == \A f \in ServerFrame : Relayed(f) \in Seq(Carries("cout"))
<1> SUFFICES ASSUME NEW f \in ServerFrame PROVE Relayed(f) \in Seq(Carries("cout"))
  OBVIOUS
<1>1. Carries("cout") = ServerFrame \cup Line
  BY DEF Carries
<1>2. <<f, "log">> \in Line /\ <<f, "show">> \in Line
  BY DEF Line
<1>3. <<<<f, "log">>>> \in Seq(ServerFrame \cup Line)
      /\ <<<<f, "show">>>> \in Seq(ServerFrame \cup Line) /\ <<f>> \in Seq(ServerFrame \cup Line)
      /\ <<>> \in Seq(ServerFrame \cup Line)
  BY <1>2
<1>4. Lines(f) \in Seq(ServerFrame \cup Line)
  BY <1>3 DEF Lines
<1> QED
  BY <1>1, <1>3, <1>4 DEF Relayed

LEMMA TypesInit == Init => Types
<1> SUFFICES ASSUME Init PROVE Types
  OBVIOUS
<1>1. PipeTypes
  BY CapacityAssumption DEF Init, PipeTypes
<1>2. ThreadTypes
  BY DEF Init, ThreadTypes, Thread
<1> QED
  BY <1>1, <1>2 DEF Init, Types, LockTypes

LEMMA PutTypes ==
    ASSUME Types, NEW t \in Thread, out[t] # <<>>, Room(Target(t)), NEW part \in Part,
           Put(t, part), UNCHANGED header,
           ended' = ended, gone' = gone, sent' \in [Pipe -> Seq(Frame)], got' = got
    PROVE /\ PipeTypes'
          /\ pipe'[Target(t)] = Append(pipe[Target(t)], <<ThisFrame(t), part>>)
          /\ \A q \in Pipe \ {Target(t)} : pipe'[q] = pipe[q]
<1> DEFINE p == Target(t)
           x == <<ThisFrame(t), part>>
<1>1. p \in Pipe /\ x \in Carries(p) \X Part /\ x \in Token
  BY InHand DEF Token, Part
<1>2. pipe' = [pipe EXCEPT ![p] = Append(pipe[p], x)]
  BY DEF Put
<1>3. pipe[p] \in Seq(Token) /\ pipe[p] \in Seq(Carries(p) \X Part) /\ Len(pipe[p]) < Capacity
  BY <1>1 DEF Types, PipeTypes, Room
<1> HIDE DEF p, x
<1>4. /\ Append(pipe[p], x) \in Seq(Token) /\ Append(pipe[p], x) \in Seq(Carries(p) \X Part)
      /\ Len(Append(pipe[p], x)) <= Capacity
  BY <1>1, <1>3, CapacityAssumption
<1>5. pipe'[p] = Append(pipe[p], x) /\ \A q \in Pipe \ {p} : pipe'[q] = pipe[q]
  BY <1>1, <1>2 DEF Types, PipeTypes
<1>6. pipe' \in [Pipe -> Seq(Token)]
  BY <1>1, <1>2, <1>4 DEF Types, PipeTypes
<1>7. \A q \in Pipe : pipe'[q] \in Seq(Carries(q) \X Part) /\ Len(pipe'[q]) <= Capacity
  BY <1>4, <1>5 DEF Types, PipeTypes
<1>8. PipeTypes'
  BY <1>6, <1>7 DEF Types, PipeTypes
<1> QED
  BY <1>5, <1>8 DEF p, x

LEMMA ReleaseTypes ==
    ASSUME Types, NEW t \in Thread, out[t] # <<>>, Release(t),
           UNCHANGED <<spawning, queue, begun>>
    PROVE /\ ThreadTypes' /\ LockTypes'
          /\ out' = [out EXCEPT ![t] = Tail(out[t])]
<1>1. out' = [out EXCEPT ![t] = Tail(out[t])]
  BY DEF Release
<1>2. Tail(out[t]) \in Seq(Parcel) /\ (t \in CallFrame => Tail(out[t]) = <<>>)
  BY InHand
<1>3. ThreadTypes'
  BY <1>1, <1>2 DEF Types, ThreadTypes, Thread
<1> QED
  BY <1>1, <1>3 DEF Types, LockTypes, Release

LEMMA HandleTypes ==
    ASSUME Types, NEW p \in Pipe, NEW f \in Carries(p), Handle(p, f)
    PROVE /\ ThreadTypes'
          /\ \A t \in Thread : t # Reader(p) => out'[t] = out[t]
<1> USE DEF Types, ThreadTypes
<1>1. CASE p = "cin"
  <2>1. f \in ClientFrame /\ f \in Carries("sin")
    BY <1>1 DEF Carries
  <2>2. To("sin", Forwarded(f)) \in Seq(Parcel)
    <3>1. Forwarded(f) \in Seq(Carries("sin"))
      BY <2>1 DEF Forwarded
    <3> QED
      BY <3>1, ToTypes DEF Pipe
  <2>3. /\ out' = [out EXCEPT !["main"] = To("sin", Forwarded(f))]
        /\ spawning' = [spawning EXCEPT !["main"] = CallAfter[f]] /\ queue' = queue
    BY <1>1 DEF Handle
  <2>4. CallAfter[f] \in CallFrame \cup {None}
    BY <2>1, ScriptAssumption
  <2>5. "main" \in Thread \ CallFrame /\ Reader(p) = "main"
    BY <1>1, ReaderThread DEF Reader
  <2>6. spawning' \in [Thread -> CallFrame \cup {None}]
    BY <2>3, <2>4
  <2> QED
    BY <2>2, <2>3, <2>5, <2>6
<1>2. CASE p = "sin"
  <2>1. Reply[f] \in Seq(ServerFrame) /\ Carries("sout") = ServerFrame
    BY <1>2, ScriptAssumption DEF Carries
  <2>2. To("sout", Reply[f]) \in Seq(Parcel)
    BY <2>1, ToTypes DEF Pipe
  <2>3. out' = [out EXCEPT !["server"] = To("sout", Reply[f])] /\ UNCHANGED <<spawning, queue>>
    BY <1>2 DEF Handle
  <2> QED
    BY <1>2, <2>2, <2>3, ReaderThread DEF Reader
<1>3. CASE p = "sout"
  <2>1. f \in ServerFrame
    BY <1>3 DEF Carries
  <2>2. CASE ToWorkers(f)
    <3>1. queue' = Append(queue, f) /\ UNCHANGED <<out, spawning>>
      BY <1>3, <2>2 DEF Handle
    <3> QED
      BY <2>1, <3>1
  <2>3. CASE ~ToWorkers(f)
    <3>1. To("cout", Relayed(f)) \in Seq(Parcel)
      BY <2>1, RelayedTypes, ToTypes DEF Pipe
    <3>2. /\ out' = [out EXCEPT !["pump"] = To("cout", Relayed(f))]
          /\ spawning' = [spawning EXCEPT !["pump"] = CallAfter[f]] /\ queue' = queue
      BY <1>3, <2>3 DEF Handle
    <3>3. CallAfter[f] \in CallFrame \cup {None}
      BY <2>1, ScriptAssumption
    <3> QED
      BY <1>3, <3>1, <3>2, <3>3, ReaderThread DEF Reader
  <2> QED
    BY <2>2, <2>3
<1>4. CASE p = "cout"
  <2>1. UNCHANGED <<out, spawning, queue>>
    BY <1>4 DEF Handle
  <2> QED
    BY <2>1
<1> QED
  BY <1>1, <1>2, <1>3, <1>4 DEF Pipe

LEMMA BeginTypes ==
    ASSUME Types, NEW t \in Thread, NEW p \in Pipe, NEW f \in Carries(p),
           f \in ClientFrame \cup CallFrame \cup ServerFrame,
           t \in CallFrame => t = f /\ p = "sin", Begin(t, p, f),
           spawning' \in [Thread -> CallFrame \cup {None}], UNCHANGED <<queue, locked, halfway>>
    PROVE /\ ThreadTypes' /\ LockTypes'
          /\ \A u \in Thread : u # t => out'[u] = out[u]
<1>1. <<<<p, f>>>> \in Seq(Parcel)
  BY OneParcel
<1>2. To(p, <<f>>) = <<<<p, f>>>>
  BY OneParcel
<1>3. out' = [out EXCEPT ![t] = <<<<p, f>>>>] /\ begun' = begun \cup {f}
  BY <1>2 DEF Begin
<1>4. out' \in [Thread -> Seq(Parcel)]
  BY <1>1, <1>3 DEF Types, ThreadTypes
<1>5. \A c \in CallFrame : out'[c] \in {<<>>, <<<<"sin", c>>>>}
  BY <1>3 DEF Types, ThreadTypes, Thread
<1>6. ThreadTypes'
  BY <1>4, <1>5 DEF Types, ThreadTypes
<1> QED
  BY <1>3, <1>6 DEF Types, ThreadTypes, LockTypes

-----------------------------------------------------------------------------
(* One writer at a time: who holds the mutex of a pipe has a frame for it;  *)
(* who has written a header holds the mutex, and the frame is the last one  *)
(* of the pipe.                                                             *)

OneHolder == \A p \in Pipe : \A t, u \in Thread :
                <<p, t>> \in locked /\ <<p, u>> \in locked => t = u

HolderWrites == \A p \in Pipe, t \in Thread :
                   <<p, t>> \in locked => out[t] # <<>> /\ Target(t) = p

HalfwayHolds ==
    \A t \in halfway :
        /\ out[t] # <<>> /\ <<Target(t), t>> \in locked /\ ~Broken(ThisFrame(t))
        /\ sent[Target(t)] # <<>>
        /\ sent[Target(t)][Len(sent[Target(t)])] = ThisFrame(t)

OneWriter == OneHolder /\ HolderWrites /\ HalfwayHolds

\* Somebody has written a header to the pipe and not yet the body.
Half(p) == \E t \in halfway : Target(t) = p

\* Steps that concern no thread with a frame in hand.
LEMMA OneWriterElsewhere ==
    ASSUME Types, OneWriter, \A t \in Thread : out[t] # <<>> => out'[t] = out[t],
           UNCHANGED <<locked, halfway, sent>>
    PROVE OneWriter' /\ \A p \in Pipe : Half(p)' = Half(p)
<1>1. \A t \in Thread : out[t] # <<>> =>
        out'[t] # <<>> /\ Target(t)' = Target(t) /\ ThisFrame(t)' = ThisFrame(t)
  BY DEF Target, ThisFrame
<1>2. halfway \subseteq Thread /\ \A t \in halfway : out[t] # <<>>
  BY DEF Types, LockTypes, OneWriter, HalfwayHolds
<1>3. OneHolder' /\ HolderWrites'
  BY <1>1 DEF OneWriter, OneHolder, HolderWrites
<1>4. HalfwayHolds'
  BY <1>1, <1>2 DEF OneWriter, HalfwayHolds
<1> QED
  BY <1>1, <1>2, <1>3, <1>4 DEF OneWriter, Half

LEMMA LockOneWriter ==
    ASSUME Types, OneWriter, NEW t \in Thread, Lock(t)
    PROVE OneWriter' /\ \A p \in Pipe : Half(p)' = Half(p)
<1>1. /\ locked' = locked \cup {<<Target(t), t>>} /\ out[t] # <<>>
      /\ \A u \in Thread : <<Target(t), u>> \notin locked
      /\ UNCHANGED <<out, halfway, sent>>
  BY DEF Lock, Free
<1>2. \A u \in Thread : Target(u)' = Target(u) /\ ThisFrame(u)' = ThisFrame(u)
  BY <1>1 DEF Target, ThisFrame
<1>3. OneHolder' /\ HolderWrites' /\ HalfwayHolds'
  BY <1>1, <1>2 DEF OneWriter, OneHolder, HolderWrites, HalfwayHolds, Types, LockTypes
<1> QED
  BY <1>1, <1>2, <1>3 DEF OneWriter, Half, Types, LockTypes

\* Before a header nobody is halfway.
LEMMA HolderAlone ==
    ASSUME Types, OneWriter, NEW t \in Thread, Writing(t)
    PROVE /\ Target(t) \in Pipe
          /\ \A u \in halfway : Target(u) = Target(t) => u = t
          /\ t \notin halfway => ~Half(Target(t))
          /\ t \in halfway => Half(Target(t))
  BY InHand DEF Types, LockTypes, OneWriter, OneHolder, HalfwayHolds, Writing, Half

LEMMA HeaderOneWriter ==
    ASSUME Types, OneWriter, NEW t \in Thread, NEW p \in Pipe, p = Target(t), WriteHeader(t)
    PROVE /\ OneWriter' /\ ~Half(p) /\ Half(p)'
          /\ \A q \in Pipe \ {p} : Half(q)' = Half(q) /\ sent'[q] = sent[q]
          /\ sent'[p] = Append(sent[p], ThisFrame(t)) /\ sent' \in [Pipe -> Seq(Frame)]
<1>1. /\ Writing(t) /\ t \notin halfway /\ ~Broken(ThisFrame(t)) /\ halfway' = halfway \cup {t}
      /\ sent' = [sent EXCEPT ![p] = Append(sent[p], ThisFrame(t))] /\ UNCHANGED <<locked, out>>
  BY DEF WriteHeader
<1>2. out[t] # <<>> /\ <<p, t>> \in locked
  BY <1>1 DEF Writing
<1>3. p \in Pipe /\ ThisFrame(t) \in Frame
  BY <1>2, InHand
<1>4. ~Half(p) /\ \A u \in halfway : Target(u) # p
  BY <1>1, HolderAlone
<1>5. \A u \in Thread : Target(u)' = Target(u) /\ ThisFrame(u)' = ThisFrame(u)
  BY <1>1 DEF Target, ThisFrame
<1>6. /\ sent'[p] = Append(sent[p], ThisFrame(t)) /\ sent' \in [Pipe -> Seq(Frame)]
      /\ \A q \in Pipe \ {p} : sent'[q] = sent[q]
  BY <1>1, <1>3 DEF Types, PipeTypes
<1>7. sent'[p] # <<>> /\ sent'[p][Len(sent'[p])] = ThisFrame(t)
  <2>1. sent[p] \in Seq(Frame)
    BY <1>3 DEF Types, PipeTypes
  <2> QED
    BY <1>3, <1>6, <2>1
<1>8. \A u \in halfway : u \in Thread /\ out[u] # <<>> /\ Target(u) \in Pipe
  BY InHand DEF Types, LockTypes, OneWriter, HalfwayHolds
<1>9. HalfwayHolds'
  <2> SUFFICES ASSUME NEW u \in halfway'
               PROVE (/\ out[u] # <<>> /\ <<Target(u), u>> \in locked /\ ~Broken(ThisFrame(u))
                      /\ sent[Target(u)] # <<>>
                      /\ sent[Target(u)][Len(sent[Target(u)])] = ThisFrame(u))'
    BY DEF HalfwayHolds
  <2>1. CASE u = t
    BY <1>1, <1>2, <1>5, <1>7, <2>1
  <2>2. CASE u \in halfway
    BY <1>1, <1>4, <1>5, <1>6, <1>8, <2>2 DEF OneWriter, HalfwayHolds
  <2> QED
    BY <1>1, <2>1, <2>2
<1>10. OneHolder' /\ HolderWrites'
  BY <1>1, <1>5 DEF OneWriter, OneHolder, HolderWrites
<1>11. Half(p)' /\ \A q \in Pipe \ {p} : Half(q)' = Half(q)
  BY <1>1, <1>5, <1>8 DEF Half
<1> QED
  BY <1>4, <1>6, <1>9, <1>10, <1>11 DEF OneWriter

\* The end of a frame, however it ends.
LEMMA ReleaseOneWriter ==
    ASSUME Types, OneWriter, NEW t \in Thread, NEW p \in Pipe, p = Target(t),
           Writing(t), Release(t), UNCHANGED sent
    PROVE /\ OneWriter' /\ ~Half(p)' /\ \A q \in Pipe \ {p} : Half(q)' = Half(q)
<1>1. /\ locked' = locked \ {<<p, t>>} /\ halfway' = halfway \ {t}
      /\ out' = [out EXCEPT ![t] = Tail(out[t])]
  BY DEF Release
<1>2. out[t] # <<>> /\ <<p, t>> \in locked
  BY DEF Writing
<1>3. \A u \in Thread \ {t} : out'[u] = out[u]
  BY <1>1 DEF Types, ThreadTypes
<1>4. \A u \in Thread \ {t} : Target(u)' = Target(u) /\ ThisFrame(u)' = ThisFrame(u)
  BY <1>3 DEF Target, ThisFrame
<1>5. \A q \in Pipe : <<q, t>> \notin locked'
  BY <1>1 DEF OneWriter, HolderWrites
<1>6. OneHolder' /\ HolderWrites'
  BY <1>1, <1>3, <1>4, <1>5 DEF OneWriter, OneHolder, HolderWrites
<1>7. \A u \in halfway : u \in Thread /\ (u # t => Target(u) # p)
  BY HolderAlone DEF Types, LockTypes
<1>8. HalfwayHolds'
  BY <1>1, <1>3, <1>4, <1>7 DEF OneWriter, HalfwayHolds
<1>9. ~Half(p)' /\ \A q \in Pipe \ {p} : Half(q)' = Half(q)
  <2>1. \A u \in halfway' : u \in halfway /\ u # t /\ Target(u)' = Target(u)
    BY <1>1, <1>4, <1>7
  <2>2. ~ \E u \in halfway' : Target(u)' = p
    BY <1>7, <2>1
  <2>3. \A q \in Pipe \ {p} : (\E u \in halfway' : Target(u)' = q) <=> Half(q)
    BY <1>1, <2>1 DEF Half
  <2> QED
    BY <2>2, <2>3 DEF Half
<1> QED
  BY <1>6, <1>8, <1>9 DEF OneWriter

-----------------------------------------------------------------------------
(* What lies in a pipe. Tokens are numbered from the first one ever         *)
(* written: header and body of the i-th frame are 2i-1 and 2i, the reader   *)
(* has had G frames and perhaps a header h, and a frame without a length    *)
(* stands where a header should.                                            *)

Clean(T, n) == \A k \in 1..n : T[k][2] # "other"

Had(h, G) == 2 * G + (IF h = None THEN 0 ELSE 1)

OfFrame(S, n, token) ==
    \E i \in 1..Len(S) : \/ n + 1 = 2 * i /\ token = <<S[i], "header">>
                         \/ n = 2 * i /\ token = <<S[i], "body">>

OfNoFrame(n, token) == token[2] = "other" /\ \E k \in Nat : n = 2 * k + 1

Fits(T, h, G, S, half) ==
    /\ h # None => G < Len(S) /\ h = S[G + 1]
    /\ \A j \in 1..Len(T) :
          Clean(T, j - 1) => OfFrame(S, Had(h, G) + j, T[j]) \/ OfNoFrame(Had(h, G) + j, T[j])
    /\ Clean(T, Len(T)) => Had(h, G) + Len(T) + (IF half THEN 1 ELSE 0) = 2 * Len(S)

LEMMA CleanAppend ==
    ASSUME NEW X, NEW T \in Seq(X), NEW x \in X, NEW j \in 1..Len(T) + 1,
           Clean(Append(T, x), j - 1)
    PROVE Clean(T, j - 1)
<1> SUFFICES ASSUME NEW k \in 1..j - 1 PROVE T[k][2] # "other"
  BY DEF Clean
<1>1. Append(T, x)[k] = T[k]
  OBVIOUS
<1> QED
  BY <1>1 DEF Clean

LEMMA OfLonger ==
    ASSUME NEW F, NEW S \in Seq(F), NEW f \in F, NEW n \in Nat, NEW x, OfFrame(S, n, x)
    PROVE OfFrame(Append(S, f), n, x)
<1>1. PICK i \in 1..Len(S) : \/ n + 1 = 2 * i /\ x = <<S[i], "header">>
                             \/ n = 2 * i /\ x = <<S[i], "body">>
  BY DEF OfFrame
<1>2. Append(S, f)[i] = S[i] /\ i \in 1..Len(Append(S, f))
  OBVIOUS
<1> QED
  BY <1>1, <1>2 DEF OfFrame

LEMMA HadNat == \A h : \A G \in Nat : Had(h, G) \in Nat
  BY DEF Had

\* A token after those that lie there.
LEMMA FitsAppend ==
    ASSUME NEW X, NEW T \in Seq(X), NEW x \in X, NEW h, NEW G \in Nat,
           NEW F, NEW S \in Seq(F), NEW half \in BOOLEAN, Fits(T, h, G, S, half),
           NEW R \in Seq(F), NEW half1 \in BOOLEAN,
           R = S \/ \E f \in F : R = Append(S, f),
           Clean(T, Len(T)) => \/ OfFrame(R, Had(h, G) + Len(T) + 1, x)
                               \/ OfNoFrame(Had(h, G) + Len(T) + 1, x),
           Clean(T, Len(T)) /\ x[2] # "other" =>
              Had(h, G) + Len(T) + 1 + (IF half1 THEN 1 ELSE 0) = 2 * Len(R)
    PROVE Fits(Append(T, x), h, G, R, half1)
<1> DEFINE U == Append(T, x)
<1>1. /\ Len(U) = Len(T) + 1 /\ U[Len(T) + 1] = x /\ \A j \in 1..Len(T) : U[j] = T[j]
      /\ Len(T) \in Nat
  OBVIOUS
<1>2. Had(h, G) \in Nat
  BY HadNat
<1>3. h # None => G < Len(R) /\ h = R[G + 1]
  <2> SUFFICES ASSUME h # None PROVE G < Len(R) /\ h = R[G + 1]
    OBVIOUS
  <2>1. G < Len(S) /\ h = S[G + 1]
    BY DEF Fits
  <2> QED
    BY <2>1
<1>4. ASSUME NEW j \in 1..Len(U), Clean(U, j - 1)
      PROVE OfFrame(R, Had(h, G) + j, U[j]) \/ OfNoFrame(Had(h, G) + j, U[j])
  <2>1. Clean(T, j - 1)
    BY <1>1, <1>4, CleanAppend
  <2>2. CASE j = Len(T) + 1
    BY <1>1, <1>2, <2>1, <2>2
  <2>3. CASE j # Len(T) + 1
    <3>1. j \in 1..Len(T) /\ U[j] = T[j]
      BY <1>1, <2>3
    <3>2. OfFrame(S, Had(h, G) + j, T[j]) \/ OfNoFrame(Had(h, G) + j, T[j])
      BY <2>1, <3>1 DEF Fits
    <3>3. Had(h, G) + j \in Nat
      BY <1>2
    <3> QED
      BY <3>1, <3>2, <3>3, OfLonger
  <2> QED
    BY <2>2, <2>3
<1>5. ASSUME Clean(U, Len(U))
      PROVE Had(h, G) + Len(U) + (IF half1 THEN 1 ELSE 0) = 2 * Len(R)
  <2>1. x[2] # "other" /\ \A k \in 1..Len(T) : U[k][2] # "other"
    BY <1>1, <1>5 DEF Clean
  <2>2. Clean(T, Len(T))
    BY <1>1, <2>1 DEF Clean
  <2> QED
    BY <1>1, <1>2, <2>1, <2>2
<1> HIDE DEF U
<1>6. Fits(U, h, G, R, half1)
  BY <1>3, <1>4, <1>5 DEF Fits
<1> QED
  BY <1>6 DEF U

LEMMA FitsHeader ==
    ASSUME NEW X, NEW T \in Seq(X), NEW F, NEW f \in F, <<f, "header">> \in X, NEW h,
           NEW G \in Nat, NEW S \in Seq(F), Fits(T, h, G, S, FALSE)
    PROVE Fits(Append(T, <<f, "header">>), h, G, Append(S, f), TRUE)
<1> DEFINE R == Append(S, f)
<1>1. R \in Seq(F) /\ Len(R) = Len(S) + 1 /\ R[Len(R)] = f /\ Len(S) \in Nat /\ Len(T) \in Nat
  OBVIOUS
<1>2. Had(h, G) \in Nat
  BY HadNat
<1>3. Clean(T, Len(T)) => Had(h, G) + Len(T) = 2 * Len(S)
  BY <1>1, <1>2 DEF Fits
<1> HIDE DEF R
<1>4. Clean(T, Len(T)) => OfFrame(R, Had(h, G) + Len(T) + 1, <<f, "header">>)
  BY <1>1, <1>2, <1>3 DEF OfFrame
<1>5. Clean(T, Len(T)) => Had(h, G) + Len(T) + 1 + 1 = 2 * Len(R)
  BY <1>1, <1>2, <1>3
<1> QED
  BY <1>1, <1>4, <1>5, FitsAppend DEF R

LEMMA FitsBody ==
    ASSUME NEW X, NEW T \in Seq(X), NEW F, NEW S \in Seq(F), S # <<>>,
           <<S[Len(S)], "body">> \in X, NEW h, NEW G \in Nat, Fits(T, h, G, S, TRUE)
    PROVE Fits(Append(T, <<S[Len(S)], "body">>), h, G, S, FALSE)
<1>1. Len(S) \in Nat /\ Len(S) > 0 /\ Len(T) \in Nat /\ Had(h, G) \in Nat
  BY HadNat
<1>2. Clean(T, Len(T)) => Had(h, G) + Len(T) + 1 = 2 * Len(S)
  BY DEF Fits
<1>3. Clean(T, Len(T)) => OfFrame(S, Had(h, G) + Len(T) + 1, <<S[Len(S)], "body">>)
  BY <1>1, <1>2 DEF OfFrame
<1>4. Clean(T, Len(T)) => Had(h, G) + Len(T) + 1 + 0 = 2 * Len(S)
  BY <1>1, <1>2
<1> QED
  BY <1>3, <1>4, FitsAppend

LEMMA FitsOther ==
    ASSUME NEW X, NEW T \in Seq(X), NEW f, <<f, "other">> \in X, NEW h, NEW G \in Nat,
           NEW F, NEW S \in Seq(F), Fits(T, h, G, S, FALSE)
    PROVE Fits(Append(T, <<f, "other">>), h, G, S, FALSE)
<1>1. Len(S) \in Nat /\ Len(T) \in Nat /\ Had(h, G) \in Nat
  BY HadNat
<1>2. Clean(T, Len(T)) => Had(h, G) + Len(T) = 2 * Len(S)
  BY <1>1 DEF Fits
<1>3. Clean(T, Len(T)) => OfNoFrame(Had(h, G) + Len(T) + 1, <<f, "other">>)
  BY <1>1, <1>2 DEF OfNoFrame
<1> QED
  BY <1>3, FitsAppend

\* The first token is taken; it was no "other".
LEMMA FitsTail ==
    ASSUME NEW X, NEW T \in Seq(X), T # <<>>, Head(T)[2] # "other",
           NEW h, NEW G \in Nat, NEW S, NEW half \in BOOLEAN, Len(S) \in Nat,
           Fits(T, h, G, S, half), NEW h1, NEW G1 \in Nat, Had(h1, G1) = Had(h, G) + 1,
           h1 # None => G1 < Len(S) /\ h1 = S[G1 + 1]
    PROVE Fits(Tail(T), h1, G1, S, half)
<1> DEFINE U == Tail(T)
<1>1. /\ Len(U) + 1 = Len(T) /\ Len(U) \in Nat /\ \A j \in 1..Len(U) : U[j] = T[j + 1]
      /\ T[1][2] # "other"
  OBVIOUS
<1>2. Had(h, G) \in Nat
  BY HadNat
<1> HIDE DEF U
<1>3. ASSUME NEW n \in 0..Len(U), Clean(U, n) PROVE Clean(T, n + 1)
  <2> SUFFICES ASSUME NEW k \in 1..n + 1 PROVE T[k][2] # "other"
    BY DEF Clean
  <2>1. CASE k = 1
    BY <1>1, <2>1
  <2>2. CASE k # 1
    <3>1. k - 1 \in 1..n /\ k - 1 \in 1..Len(U) /\ (k - 1) + 1 = k
      BY <1>1, <2>2
    <3>2. U[k - 1] = T[k]
      BY <1>1, <3>1
    <3>3. U[k - 1][2] # "other"
      BY <1>3, <3>1 DEF Clean
    <3> QED
      BY <3>2, <3>3
  <2> QED
    BY <2>1, <2>2
<1>4. ASSUME NEW j \in 1..Len(U), Clean(U, j - 1)
      PROVE OfFrame(S, Had(h1, G1) + j, U[j]) \/ OfNoFrame(Had(h1, G1) + j, U[j])
  <2>1. j - 1 \in 0..Len(U) /\ (j - 1) + 1 = (j + 1) - 1 /\ j + 1 \in 1..Len(T)
    BY <1>1
  <2>2. Clean(T, (j + 1) - 1)
    BY <1>3, <1>4, <2>1
  <2>3. OfFrame(S, Had(h, G) + (j + 1), T[j + 1]) \/ OfNoFrame(Had(h, G) + (j + 1), T[j + 1])
    BY <2>1, <2>2 DEF Fits
  <2>4. Had(h, G) + (j + 1) = Had(h1, G1) + j /\ U[j] = T[j + 1]
    BY <1>1, <1>2
  <2> QED
    BY <2>3, <2>4
<1>5. ASSUME Clean(U, Len(U))
      PROVE Had(h1, G1) + Len(U) + (IF half THEN 1 ELSE 0) = 2 * Len(S)
  <2>1. Clean(T, Len(T))
    BY <1>1, <1>3, <1>5
  <2>2. Had(h, G) + Len(T) + (IF half THEN 1 ELSE 0) = 2 * Len(S)
    BY <2>1 DEF Fits
  <2>3. Len(T) = Len(U) + 1 /\ Had(h1, G1) = Had(h, G) + 1
    BY <1>1
  <2>4. CASE half
    BY <1>1, <1>2, <2>2, <2>3, <2>4
  <2>5. CASE ~half
    BY <1>1, <1>2, <2>2, <2>3, <2>5
  <2> QED
    BY <2>4, <2>5
<1>6. Fits(U, h1, G1, S, half)
  BY <1>4, <1>5 DEF Fits
<1> QED
  BY <1>6 DEF U

\* What the first token is.
LEMMA FirstToken ==
    ASSUME NEW X, NEW T \in Seq(X), T # <<>>, NEW h, NEW G \in Nat,
           NEW F, NEW S \in Seq(F), NEW half \in BOOLEAN, Fits(T, h, G, S, half)
    PROVE /\ h = None /\ Head(T)[2] = "header" => G < Len(S) /\ Head(T)[1] = S[G + 1]
          /\ h # None => G < Len(S) /\ h = S[G + 1] /\ Head(T) = <<h, "body">>
<1>1. T[1] = Head(T) /\ 1 \in 1..Len(T) /\ Len(S) \in Nat
  OBVIOUS
<1>2. Clean(T, 1 - 1)
  BY DEF Clean
<1>3. OfFrame(S, Had(h, G) + 1, Head(T)) \/ OfNoFrame(Had(h, G) + 1, Head(T))
  BY <1>1, <1>2 DEF Fits
<1>4. ASSUME h = None, Head(T)[2] = "header" PROVE G < Len(S) /\ Head(T)[1] = S[G + 1]
  <2>1. PICK i \in 1..Len(S) : \/ 2 * G + 1 + 1 = 2 * i /\ Head(T) = <<S[i], "header">>
                               \/ 2 * G + 1 = 2 * i /\ Head(T) = <<S[i], "body">>
    BY <1>3, <1>4 DEF Had, OfFrame, OfNoFrame
  <2>2. i = G + 1
    BY <1>1, <2>1
  <2> QED
    BY <1>1, <1>4, <2>1, <2>2
<1>5. ASSUME h # None PROVE G < Len(S) /\ h = S[G + 1] /\ Head(T) = <<h, "body">>
  <2>1. G < Len(S) /\ h = S[G + 1]
    BY <1>5 DEF Fits
  <2>2. ~OfNoFrame(2 * G + 1 + 1, Head(T))
    BY DEF OfNoFrame
  <2>3. PICK i \in 1..Len(S) : \/ 2 * G + 2 + 1 = 2 * i /\ Head(T) = <<S[i], "header">>
                               \/ 2 * G + 2 = 2 * i /\ Head(T) = <<S[i], "body">>
    BY <1>3, <1>5, <2>2 DEF Had, OfFrame
  <2>4. i = G + 1 /\ Head(T) = <<S[i], "body">>
    BY <1>1, <2>3
  <2> QED
    BY <2>1, <2>4
<1> QED
  BY <1>4, <1>5

\* No body without its header.
LEMMA NoBodyFirst ==
    ASSUME NEW X, NEW T \in Seq(X), T # <<>>, NEW G \in Nat, NEW F, NEW S \in Seq(F),
           NEW half \in BOOLEAN, Fits(T, None, G, S, half)
    PROVE Head(T)[2] # "body"
<1>1. T[1] = Head(T) /\ 1 \in 1..Len(T) /\ Clean(T, 1 - 1)
  BY DEF Clean
<1>2. OfFrame(S, 2 * G + 0 + 1, Head(T)) \/ OfNoFrame(2 * G + 0 + 1, Head(T))
  BY <1>1 DEF Fits, Had
<1>3. ASSUME NEW i \in 1..Len(S) PROVE 2 * G + 0 + 1 # 2 * i
  OBVIOUS
<1> QED
  BY <1>2, <1>3 DEF OfFrame, OfNoFrame

-----------------------------------------------------------------------------
(* The invariant, and the steps.                                            *)

ContentsOf(p) == ~Deaf(p) => Fits(pipe[p], header[p], Len(got[p]), sent[p], Half(p))

Contents == \A p \in Pipe : ContentsOf(p)

Inv == Types /\ OneWriter /\ Contents

AbstractStep == Channels!Next \/ UNCHANGED Channels!vars

LEMMA InvInit == Init => Inv /\ Channels!Init
<1> SUFFICES ASSUME Init PROVE Inv /\ Channels!Init
  OBVIOUS
<1>1. OneWriter
  BY DEF Init, OneWriter, OneHolder, HolderWrites, HalfwayHolds
<1>2. ASSUME NEW p \in Pipe PROVE Fits(pipe[p], header[p], Len(got[p]), sent[p], Half(p))
  <2>1. pipe[p] = <<>> /\ header[p] = None /\ got[p] = <<>> /\ sent[p] = <<>> /\ halfway = {}
    BY DEF Init
  <2>2. ~Half(p)
    BY <2>1 DEF Half
  <2> QED
    BY <2>1, <2>2 DEF Fits, Had
<1> QED
  BY <1>1, <1>2, TypesInit DEF Inv, Contents, ContentsOf, Init, Channels!Init

\* A pipe nothing happens to.
LEMMA SamePipe ==
    ASSUME NEW p \in Pipe, ContentsOf(p), ~Deaf(p)' => ~Deaf(p), Half(p)' = Half(p),
           pipe'[p] = pipe[p], header'[p] = header[p], got'[p] = got[p], sent'[p] = sent[p]
    PROVE ContentsOf(p)'
  BY DEF ContentsOf

LEMMA SameDeaf ==
    ASSUME UNCHANGED <<ended, gone>> PROVE \A p \in Pipe : Deaf(p)' = Deaf(p)
  BY DEF Deaf

\* A step that writes nothing, reads nothing and ends no frame.
LEMMA InvElsewhere ==
    ASSUME Inv, PipeTypes', ThreadTypes', LockTypes',
           \A t \in Thread : out[t] # <<>> => out'[t] = out[t],
           UNCHANGED <<pipe, header, locked, halfway, sent, got>>,
           \A p \in Pipe : ~Deaf(p)' => ~Deaf(p)
    PROVE Inv' /\ AbstractStep
<1>1. OneWriter' /\ \A p \in Pipe : Half(p)' = Half(p)
  BY OneWriterElsewhere DEF Inv
<1>2. Contents'
  BY <1>1, SamePipe DEF Inv, Contents
<1> QED
  BY <1>1, <1>2 DEF Inv, Types, AbstractStep, Channels!vars

LEMMA LockStep ==
    ASSUME Inv, NEW t \in Thread, Lock(t) PROVE Inv' /\ AbstractStep
<1>1. OneWriter' /\ \A p \in Pipe : Half(p)' = Half(p)
  BY LockOneWriter DEF Inv
<1>2. Target(t) \in Pipe
  BY InHand DEF Inv, Lock
<1>3. UNCHANGED <<pipe, header, ended, gone, sent, got>>
  BY DEF Lock
<1>4. Types'
  <2>1. locked' \subseteq Pipe \X Thread /\ UNCHANGED <<halfway, begun>>
    BY <1>2 DEF Inv, Types, LockTypes, Lock
  <2> QED
    BY <1>3, <2>1 DEF Inv, Types, PipeTypes, ThreadTypes, LockTypes, Lock
<1>5. Contents'
  BY <1>1, <1>3, SamePipe, SameDeaf DEF Inv, Contents
<1> QED
  BY <1>1, <1>3, <1>4, <1>5 DEF Inv, AbstractStep, Channels!vars

LEMMA HeaderStep ==
    ASSUME Inv, NEW t \in Thread, WriteHeader(t) PROVE Inv' /\ AbstractStep
<1> PICK p : p = Target(t)
  OBVIOUS
<1> PICK f : f = ThisFrame(t)
  OBVIOUS
<1>1. /\ out[t] # <<>> /\ Room(p) /\ Put(t, "header")
      /\ UNCHANGED <<header, locked, out, spawning, queue, begun, ended, gone, got>>
  BY DEF WriteHeader, Writing
<1>2. p \in Pipe /\ f \in Frame /\ <<f, "header">> \in Token
  BY <1>1, InHand DEF Inv, Token
<1>3. /\ OneWriter' /\ ~Half(p) /\ Half(p)'
      /\ \A q \in Pipe \ {p} : Half(q)' = Half(q) /\ sent'[q] = sent[q]
      /\ sent'[p] = Append(sent[p], f) /\ sent' \in [Pipe -> Seq(Frame)]
  BY <1>2, HeaderOneWriter DEF Inv
<1>4. /\ PipeTypes' /\ pipe'[p] = Append(pipe[p], <<f, "header">>)
      /\ \A q \in Pipe \ {p} : pipe'[q] = pipe[q]
  BY <1>1, <1>3, PutTypes DEF Inv, Part
<1>5. Types'
  BY <1>1, <1>4 DEF Inv, Types, ThreadTypes, LockTypes, WriteHeader
<1>6. \A q \in Pipe : Deaf(q)' = Deaf(q)
  BY <1>1, SameDeaf
<1>7. ContentsOf(p)'
  <2> SUFFICES ASSUME ~Deaf(p)
               PROVE Fits(pipe'[p], header'[p], Len(got'[p]), sent'[p], Half(p)')
    BY <1>2, <1>6 DEF ContentsOf
  <2>1. Half(p) = FALSE /\ Half(p)' = TRUE
    BY <1>3 DEF Half
  <2>2. Fits(pipe[p], header[p], Len(got[p]), sent[p], FALSE)
    BY <1>2, <2>1 DEF Inv, Contents, ContentsOf
  <2>3. pipe[p] \in Seq(Token) /\ sent[p] \in Seq(Frame) /\ Len(got[p]) \in Nat
    BY <1>2 DEF Inv, Types, PipeTypes
  <2>4. Fits(Append(pipe[p], <<f, "header">>), header[p], Len(got[p]), Append(sent[p], f), TRUE)
    BY <1>2, <2>2, <2>3, FitsHeader
  <2> QED
    BY <1>1, <1>3, <1>4, <2>1, <2>4
<1>8. Contents'
  BY <1>1, <1>3, <1>4, <1>6, <1>7, SamePipe DEF Inv, Contents
<1>9. Channels!Send(p, f)
  BY <1>1 DEF WriteHeader, Channels!Send
<1> QED
  BY <1>2, <1>3, <1>5, <1>8, <1>9 DEF Inv, AbstractStep, Channels!Next

LEMMA BodyStep ==
    ASSUME Inv, NEW t \in Thread, WriteBody(t) PROVE Inv' /\ AbstractStep
<1> PICK p : p = Target(t)
  OBVIOUS
<1> PICK f : f = ThisFrame(t)
  OBVIOUS
<1>1. /\ Writing(t) /\ out[t] # <<>> /\ t \in halfway
      /\ Room(p) /\ Put(t, "body") /\ Release(t)
      /\ UNCHANGED <<header, spawning, queue, begun, ended, gone, sent, got>>
  BY DEF WriteBody, Writing
<1>2. p \in Pipe /\ f \in Frame /\ <<f, "body">> \in Token
  BY <1>1, InHand DEF Inv, Token
<1>3. OneWriter' /\ ~Half(p)' /\ \A q \in Pipe \ {p} : Half(q)' = Half(q)
  BY <1>1, <1>2, ReleaseOneWriter DEF Inv
<1>4. /\ PipeTypes' /\ pipe'[p] = Append(pipe[p], <<f, "body">>)
      /\ \A q \in Pipe \ {p} : pipe'[q] = pipe[q]
  BY <1>1, PutTypes DEF Inv, Types, PipeTypes, Part
<1>5. Types'
  BY <1>1, <1>4, ReleaseTypes DEF Inv, Types
<1>6. \A q \in Pipe : Deaf(q)' = Deaf(q)
  BY <1>1, SameDeaf
<1>7. ContentsOf(p)'
  <2> SUFFICES ASSUME ~Deaf(p)
               PROVE Fits(pipe'[p], header'[p], Len(got'[p]), sent'[p], Half(p)')
    BY <1>2, <1>6 DEF ContentsOf
  <2>1. Half(p) = TRUE /\ Half(p)' = FALSE
    BY <1>1, <1>3, HolderAlone DEF Inv, Half
  <2>2. Fits(pipe[p], header[p], Len(got[p]), sent[p], TRUE)
    BY <1>2, <2>1 DEF Inv, Contents, ContentsOf
  <2>3. pipe[p] \in Seq(Token) /\ sent[p] \in Seq(Frame) /\ Len(got[p]) \in Nat
    BY <1>2 DEF Inv, Types, PipeTypes
  <2>4. sent[p] # <<>> /\ f = sent[p][Len(sent[p])]
    BY <1>1 DEF Inv, OneWriter, HalfwayHolds
  <2>5. Fits(Append(pipe[p], <<f, "body">>), header[p], Len(got[p]), sent[p], FALSE)
    BY <1>2, <2>2, <2>3, <2>4, FitsBody
  <2> QED
    BY <1>1, <1>4, <2>1, <2>5
<1>8. Contents'
  BY <1>1, <1>3, <1>4, <1>6, <1>7, SamePipe DEF Inv, Contents
<1> QED
  BY <1>1, <1>3, <1>5, <1>8 DEF Inv, AbstractStep, Channels!vars

LEMMA BrokenStep ==
    ASSUME Inv, NEW t \in Thread, WriteBroken(t) PROVE Inv' /\ AbstractStep
<1> PICK p : p = Target(t)
  OBVIOUS
<1> PICK f : f = ThisFrame(t)
  OBVIOUS
<1>1. /\ Writing(t) /\ out[t] # <<>> /\ Broken(f)
      /\ Room(p) /\ Put(t, "other") /\ Release(t)
      /\ UNCHANGED <<header, spawning, queue, begun, ended, gone, sent, got>>
  BY DEF WriteBroken, Writing
<1>2. p \in Pipe /\ <<f, "other">> \in Token
  BY <1>1, InHand DEF Inv, Token
<1>3. OneWriter' /\ ~Half(p)' /\ \A q \in Pipe \ {p} : Half(q)' = Half(q)
  BY <1>1, <1>2, ReleaseOneWriter DEF Inv
<1>4. /\ PipeTypes' /\ pipe'[p] = Append(pipe[p], <<f, "other">>)
      /\ \A q \in Pipe \ {p} : pipe'[q] = pipe[q]
  BY <1>1, PutTypes DEF Inv, Types, PipeTypes, Part
<1>5. Types'
  BY <1>1, <1>4, ReleaseTypes DEF Inv, Types
<1>6. \A q \in Pipe : Deaf(q)' = Deaf(q)
  BY <1>1, SameDeaf
<1>7. ContentsOf(p)'
  <2> SUFFICES ASSUME ~Deaf(p)
               PROVE Fits(pipe'[p], header'[p], Len(got'[p]), sent'[p], Half(p)')
    BY <1>2, <1>6 DEF ContentsOf
  <2>1. t \notin halfway
    BY <1>1 DEF Inv, OneWriter, HalfwayHolds
  <2>2. Half(p) = FALSE /\ Half(p)' = FALSE
    BY <1>1, <1>3, <2>1, HolderAlone DEF Inv, Half
  <2>3. Fits(pipe[p], header[p], Len(got[p]), sent[p], FALSE)
    BY <1>2, <2>2 DEF Inv, Contents, ContentsOf
  <2>4. pipe[p] \in Seq(Token) /\ sent[p] \in Seq(Frame) /\ Len(got[p]) \in Nat
    BY <1>2 DEF Inv, Types, PipeTypes
  <2>5. Fits(Append(pipe[p], <<f, "other">>), header[p], Len(got[p]), sent[p], FALSE)
    BY <1>2, <2>3, <2>4, FitsOther
  <2> QED
    BY <1>1, <1>4, <2>2, <2>5
<1>8. Contents'
  BY <1>1, <1>3, <1>4, <1>6, <1>7, SamePipe DEF Inv, Contents
<1> QED
  BY <1>1, <1>3, <1>5, <1>8 DEF Inv, AbstractStep, Channels!vars

LEMMA FailStep ==
    ASSUME Inv, NEW t \in Thread, WriteFails(t) PROVE Inv' /\ AbstractStep
<1> PICK p : p = Target(t)
  OBVIOUS
<1>1. /\ Writing(t) /\ out[t] # <<>> /\ Deaf(p) /\ Release(t)
      /\ UNCHANGED <<pipe, header, spawning, queue, begun, ended, gone, sent, got>>
  BY DEF WriteFails, Writing
<1>2. p \in Pipe
  BY <1>1, InHand DEF Inv
<1>3. OneWriter' /\ \A q \in Pipe \ {p} : Half(q)' = Half(q)
  BY <1>1, <1>2, ReleaseOneWriter DEF Inv
<1>4. Types'
  BY <1>1, ReleaseTypes DEF Inv, Types, PipeTypes
<1>5. \A q \in Pipe : Deaf(q)' = Deaf(q)
  BY <1>1, SameDeaf
<1>6. ContentsOf(p)'
  BY <1>1, <1>2, <1>5 DEF ContentsOf
<1>7. Contents'
  BY <1>1, <1>3, <1>5, <1>6, SamePipe DEF Inv, Contents
<1> QED
  BY <1>1, <1>3, <1>4, <1>7 DEF Inv, AbstractStep, Channels!vars

\* The first token of a pipe is taken.
LEMMA TakeTypes ==
    ASSUME Types, NEW p \in Pipe, pipe[p] # <<>>,
           pipe' = [pipe EXCEPT ![p] = Tail(@)], NEW h \in {None, Head(pipe[p])[1]},
           header' = [header EXCEPT ![p] = h] \/ header' = header,
           ended' \subseteq Pipe \cup Worker, gone' = gone, sent' = sent,
           got' \in [Pipe -> Seq(Frame \cup {Torn})]
    PROVE /\ PipeTypes' /\ pipe'[p] = Tail(pipe[p])
          /\ \A q \in Pipe \ {p} : pipe'[q] = pipe[q] /\ header'[q] = header[q]
<1>1. pipe[p] \in Seq(Token) /\ pipe[p] \in Seq(Carries(p) \X Part) /\ Len(pipe[p]) <= Capacity
  BY DEF Types, PipeTypes
<1>2. Head(pipe[p]) \in Carries(p) \X Part
  BY <1>1
<1>3. h \in Carries(p) \cup {None} /\ h \in Frame \cup {None}
  BY <1>2, CarriesFrames
<1>4. /\ Tail(pipe[p]) \in Seq(Token) /\ Tail(pipe[p]) \in Seq(Carries(p) \X Part)
      /\ Len(Tail(pipe[p])) <= Capacity
  BY <1>1, CapacityAssumption
<1>5. /\ pipe'[p] = Tail(pipe[p]) /\ pipe' \in [Pipe -> Seq(Token)]
      /\ \A q \in Pipe \ {p} : pipe'[q] = pipe[q]
  BY <1>4 DEF Types, PipeTypes
<1>6. /\ header'[p] \in Carries(p) \cup {None} /\ header' \in [Pipe -> Frame \cup {None}]
      /\ \A q \in Pipe \ {p} : header'[q] = header[q]
  BY <1>3 DEF Types, PipeTypes
<1>7. \A q \in Pipe : /\ pipe'[q] \in Seq(Carries(q) \X Part) /\ Len(pipe'[q]) <= Capacity
                      /\ header'[q] \in Carries(q) \cup {None}
  BY <1>4, <1>5, <1>6 DEF Types, PipeTypes
<1>8. PipeTypes'
  BY <1>5, <1>6, <1>7 DEF Types, PipeTypes
<1> QED
  BY <1>5, <1>6, <1>8

LEMMA ReadHeaderStep ==
    ASSUME Inv, NEW p \in Pipe, ReadHeader(p) PROVE Inv' /\ AbstractStep
<1> PICK h : h = Head(pipe[p])[1]
  OBVIOUS
<1>1. /\ pipe[p] # <<>> /\ ~Deaf(p) /\ header[p] = None /\ Head(pipe[p])[2] = "header"
      /\ header' = [header EXCEPT ![p] = h] /\ pipe' = [pipe EXCEPT ![p] = Tail(@)]
      /\ UNCHANGED <<locked, out, halfway, spawning, queue, begun, ended, gone, sent, got>>
  BY DEF ReadHeader, Reading, Next1
<1>2. /\ PipeTypes' /\ pipe'[p] = Tail(pipe[p])
      /\ \A q \in Pipe \ {p} : pipe'[q] = pipe[q] /\ header'[q] = header[q]
  BY <1>1, TakeTypes DEF Inv, Types, PipeTypes
<1>3. Types'
  BY <1>1, <1>2 DEF Inv, Types, ThreadTypes, LockTypes
<1>4. OneWriter' /\ \A q \in Pipe : Half(q)' = Half(q)
  BY <1>1, OneWriterElsewhere DEF Inv
<1>5. \A q \in Pipe : Deaf(q)' = Deaf(q)
  BY <1>1, SameDeaf
<1>6. ContentsOf(p)'
  <2>1. /\ pipe[p] \in Seq(Token) /\ sent[p] \in Seq(Frame) /\ Len(got[p]) \in Nat
        /\ Len(sent[p]) \in Nat /\ Half(p) \in BOOLEAN
    BY DEF Inv, Types, PipeTypes, Half
  <2>2. Fits(pipe[p], header[p], Len(got[p]), sent[p], Half(p))
    BY <1>1 DEF Inv, Contents, ContentsOf
  <2>3. Len(got[p]) < Len(sent[p]) /\ h = sent[p][Len(got[p]) + 1]
    BY <1>1, <2>1, <2>2, FirstToken
  <2>4. h # None
    BY <2>1, <2>3, ScriptAssumption
  <2>5. Had(h, Len(got[p])) = Had(header[p], Len(got[p])) + 1
    BY <1>1, <2>1, <2>4 DEF Had
  <2>6. Fits(Tail(pipe[p]), h, Len(got[p]), sent[p], Half(p))
    BY <1>1, <2>1, <2>2, <2>3, <2>5, FitsTail
  <2>7. header'[p] = h
    BY <1>1 DEF Inv, Types, PipeTypes
  <2> QED
    BY <1>1, <1>2, <1>4, <2>6, <2>7 DEF ContentsOf
<1>7. Contents'
  BY <1>1, <1>2, <1>4, <1>5, <1>6, SamePipe DEF Inv, Contents
<1> QED
  BY <1>1, <1>3, <1>4, <1>7 DEF Inv, AbstractStep, Channels!vars

\* The body that comes is that of the header that was read, and the frame is
\* the one whose turn it is.
LEMMA WholeFrame ==
    ASSUME Inv, NEW p \in Pipe, ReadBody(p)
    PROVE /\ Head(pipe[p]) = <<header[p], "body">>
          /\ Len(got[p]) < Len(sent[p]) /\ header[p] = sent[p][Len(got[p]) + 1]
          /\ Fits(pipe[p], header[p], Len(got[p]), sent[p], Half(p))
<1>1. pipe[p] # <<>> /\ ~Deaf(p) /\ header[p] # None
  BY DEF ReadBody, Reading
<1>2. /\ pipe[p] \in Seq(Token) /\ sent[p] \in Seq(Frame) /\ Len(got[p]) \in Nat
      /\ Half(p) \in BOOLEAN
  BY DEF Inv, Types, PipeTypes, Half
<1>3. Fits(pipe[p], header[p], Len(got[p]), sent[p], Half(p))
  BY <1>1 DEF Inv, Contents, ContentsOf
<1>4. /\ Len(got[p]) < Len(sent[p]) /\ header[p] = sent[p][Len(got[p]) + 1]
      /\ Head(pipe[p]) = <<header[p], "body">>
  BY <1>1, <1>2, <1>3, FirstToken
<1> QED
  BY <1>3, <1>4

LEMMA ReadBodyStep ==
    ASSUME Inv, NEW p \in Pipe, ReadBody(p) PROVE Inv' /\ AbstractStep
<1> PICK f : f = header[p]
  OBVIOUS
<1>1. /\ pipe[p] # <<>> /\ ~Deaf(p) /\ f # None /\ Idle(Reader(p))
      /\ header' = [header EXCEPT ![p] = None] /\ pipe' = [pipe EXCEPT ![p] = Tail(@)]
      /\ UNCHANGED <<locked, halfway, begun, ended, gone, sent>>
  BY DEF ReadBody, Reading
<1>2. /\ Head(pipe[p]) = <<f, "body">>
      /\ Len(got[p]) < Len(sent[p]) /\ f = sent[p][Len(got[p]) + 1]
      /\ Fits(pipe[p], f, Len(got[p]), sent[p], Half(p))
  BY WholeFrame
<1>3. got' = [got EXCEPT ![p] = Append(got[p], f)] /\ Handle(p, f)
  BY <1>2 DEF ReadBody, Next1
<1>4. f \in Carries(p) /\ f \in Frame
  BY <1>1, CarriesFrames DEF Inv, Types, PipeTypes
<1>5. /\ got' \in [Pipe -> Seq(Frame \cup {Torn})] /\ got'[p] = Append(got[p], f)
      /\ \A q \in Pipe \ {p} : got'[q] = got[q]
  BY <1>3, <1>4 DEF Inv, Types, PipeTypes
<1>6. /\ PipeTypes' /\ pipe'[p] = Tail(pipe[p])
      /\ \A q \in Pipe \ {p} : pipe'[q] = pipe[q] /\ header'[q] = header[q]
  BY <1>1, <1>5, TakeTypes DEF Inv, Types, PipeTypes
<1>7. ThreadTypes' /\ \A t \in Thread : t # Reader(p) => out'[t] = out[t]
  BY <1>3, <1>4, HandleTypes DEF Inv
<1>8. Types'
  BY <1>1, <1>6, <1>7 DEF Inv, Types, LockTypes
<1>9. OneWriter' /\ \A q \in Pipe : Half(q)' = Half(q)
  <2>1. \A t \in Thread : out[t] # <<>> => out'[t] = out[t]
    BY <1>1, <1>7 DEF Idle
  <2> QED
    BY <1>1, <2>1, OneWriterElsewhere DEF Inv
<1>10. \A q \in Pipe : Deaf(q)' = Deaf(q)
  BY <1>1, SameDeaf
<1>11. ContentsOf(p)'
  <2>1. /\ pipe[p] \in Seq(Token) /\ sent[p] \in Seq(Frame) /\ Len(got[p]) \in Nat
        /\ Len(sent[p]) \in Nat /\ Half(p) \in BOOLEAN /\ Len(got[p]) + 1 \in Nat
    BY DEF Inv, Types, PipeTypes, Half
  <2>2. Len(got'[p]) = Len(got[p]) + 1 /\ header'[p] = None
    <3>1. got[p] \in Seq(Frame \cup {Torn})
      BY DEF Inv, Types, PipeTypes
    <3>2. header'[p] = None
      BY <1>1 DEF Inv, Types, PipeTypes
    <3> QED
      BY <1>4, <1>5, <3>1, <3>2
  <2>3. Had(None, Len(got[p]) + 1) = Had(f, Len(got[p])) + 1
    BY <1>1, <2>1 DEF Had
  <2>4. Head(pipe[p])[2] # "other"
    BY <1>2
  <2>5. Fits(Tail(pipe[p]), None, Len(got[p]) + 1, sent[p], Half(p))
    BY <1>1, <1>2, <2>1, <2>3, <2>4, FitsTail
  <2> QED
    BY <1>1, <1>6, <1>9, <2>2, <2>5 DEF ContentsOf
<1>12. Contents'
  BY <1>1, <1>5, <1>6, <1>9, <1>10, <1>11, SamePipe DEF Inv, Contents
<1>13. Channels!Receive(p)
  BY <1>1, <1>2, <1>3 DEF Channels!Receive
<1> QED
  BY <1>8, <1>9, <1>12, <1>13 DEF Inv, AbstractStep, Channels!Next

LEMMA ReadBrokenStep ==
    ASSUME Inv, NEW p \in Pipe, ReadBroken(p) PROVE Inv' /\ AbstractStep
<1>1. /\ pipe[p] # <<>> /\ pipe' = [pipe EXCEPT ![p] = Tail(@)] /\ ended' = ended \cup {p}
      /\ UNCHANGED <<header, locked, out, halfway, spawning, queue, begun, gone, sent, got>>
  BY DEF ReadBroken, Reading, GiveUp
<1>2. /\ PipeTypes' /\ pipe'[p] = Tail(pipe[p])
      /\ \A q \in Pipe \ {p} : pipe'[q] = pipe[q] /\ header'[q] = header[q]
  BY <1>1, TakeTypes DEF Inv, Types, PipeTypes
<1>3. Types'
  BY <1>1, <1>2 DEF Inv, Types, ThreadTypes, LockTypes
<1>4. OneWriter' /\ \A q \in Pipe : Half(q)' = Half(q)
  BY <1>1, OneWriterElsewhere DEF Inv
<1>5. \A q \in Pipe : ~Deaf(q)' => ~Deaf(q) /\ q # p
  BY <1>1 DEF Deaf
<1>6. ContentsOf(p)'
  BY <1>5 DEF ContentsOf
<1>7. Contents'
  BY <1>1, <1>2, <1>4, <1>5, <1>6, SamePipe DEF Inv, Contents
<1> QED
  BY <1>1, <1>3, <1>4, <1>7 DEF Inv, AbstractStep, Channels!vars

LEMMA ThreadsThere == {"client", "main", "server", "pump"} \cap CallFrame = {}
  BY ThreadAssumption

LEMMA BeginStep ==
    ASSUME Inv, NEW t \in Thread, NEW p \in Pipe, NEW f \in Carries(p),
           f \in ClientFrame \cup CallFrame \cup ServerFrame,
           t \in CallFrame => t = f /\ p = "sin",
           out[t] = <<>> \/ t \in CallFrame, Begin(t, p, f),
           spawning' \in [Thread -> CallFrame \cup {None}],
           UNCHANGED <<pipe, header, locked, halfway, queue, ended, gone, sent, got>>
    PROVE Inv' /\ AbstractStep
<1>1. ThreadTypes' /\ LockTypes' /\ \A u \in Thread : u # t => out'[u] = out[u]
  BY BeginTypes DEF Inv
<1>2. PipeTypes'
  BY DEF Inv, Types, PipeTypes
<1>3. out[t] # <<>> => out'[t] = out[t]
  <2> SUFFICES ASSUME out[t] # <<>> PROVE out'[t] = out[t]
    OBVIOUS
  <2>1. out[t] = <<<<"sin", t>>>> /\ t = f /\ p = "sin"
    BY DEF Inv, Types, ThreadTypes
  <2>2. out'[t] = To(p, <<f>>)
    BY DEF Begin, Inv, Types, ThreadTypes
  <2>3. To(p, <<f>>) = <<<<p, f>>>>
    BY DEF To
  <2> QED
    BY <2>1, <2>2, <2>3
<1>4. \A q \in Pipe : ~Deaf(q)' => ~Deaf(q)
  BY SameDeaf
<1> QED
  BY <1>1, <1>2, <1>3, <1>4, InvElsewhere

LEMMA ClientStep ==
    ASSUME Inv, NEW f \in ClientFrame, ClientWrites(f) PROVE Inv' /\ AbstractStep
<1>1. /\ out["client"] = <<>> /\ Begin("client", "cin", f)
      /\ UNCHANGED <<pipe, header, locked, halfway, spawning, queue, ended, gone, sent, got>>
  BY DEF ClientWrites, Idle
<1>2. "client" \in Thread \ CallFrame /\ "cin" \in Pipe /\ f \in Carries("cin")
  BY ThreadsThere DEF Thread, Pipe, Carries
<1>3. spawning' \in [Thread -> CallFrame \cup {None}]
  BY <1>1 DEF Inv, Types, ThreadTypes
<1> QED
  BY <1>1, <1>2, <1>3, BeginStep

LEMMA ServerStep ==
    ASSUME Inv, NEW f \in Unprompted, ServerWrites(f) PROVE Inv' /\ AbstractStep
<1>1. /\ out["server"] = <<>> /\ Begin("server", "sout", f)
      /\ UNCHANGED <<pipe, header, locked, halfway, spawning, queue, ended, gone, sent, got>>
  BY DEF ServerWrites, Idle
<1>2. "server" \in Thread \ CallFrame /\ "sout" \in Pipe
  BY ThreadsThere DEF Thread, Pipe
<1>3. f \in ServerFrame /\ f \in Carries("sout")
  BY DEF Unprompted, Carries
<1>4. spawning' \in [Thread -> CallFrame \cup {None}]
  BY <1>1 DEF Inv, Types, ThreadTypes
<1> QED
  BY <1>1, <1>2, <1>3, <1>4, BeginStep

LEMMA SpawnStep ==
    ASSUME Inv, NEW t \in Thread, Spawn(t) PROVE Inv' /\ AbstractStep
<1> PICK c : c = spawning[t]
  OBVIOUS
<1>1. /\ c # None /\ Begin(c, "sin", c) /\ spawning' = [spawning EXCEPT ![t] = None]
      /\ UNCHANGED <<pipe, header, locked, halfway, queue, ended, gone, sent, got>>
  BY DEF Spawn, CallThread
<1>2. c \in CallFrame /\ c \in Thread /\ c \in Carries("sin") /\ "sin" \in Pipe
  BY <1>1 DEF Inv, Types, ThreadTypes, Thread, Carries, Pipe
<1>3. spawning' \in [Thread -> CallFrame \cup {None}]
  BY <1>1 DEF Inv, Types, ThreadTypes
<1> QED
  BY <1>1, <1>2, <1>3, BeginStep

LEMMA WorkStep ==
    ASSUME Inv, NEW w \in Worker, Work(w) PROVE Inv' /\ AbstractStep
<1>1. /\ out[w] = <<>> /\ queue # <<>> /\ queue' = Tail(queue)
      /\ out' = [out EXCEPT ![w] = To("cout", <<Head(queue)>>)]
      /\ UNCHANGED <<pipe, header, locked, halfway, spawning, begun, ended, gone, sent, got>>
  BY DEF Work, Idle
<1>2. w \in Thread \ CallFrame
  BY ThreadAssumption DEF Thread
<1>3. Head(queue) \in ServerFrame /\ Tail(queue) \in Seq(ServerFrame)
  BY <1>1 DEF Inv, Types, ThreadTypes
<1>4. To("cout", <<Head(queue)>>) \in Seq(Parcel)
  <2>1. Head(queue) \in Carries("cout") /\ "cout" \in Pipe
    BY <1>3 DEF Carries, Pipe
  <2> QED
    BY <2>1, OneParcel
<1>5. ThreadTypes' /\ \A u \in Thread : u # w => out'[u] = out[u]
  <2>1. /\ out' \in [Thread -> Seq(Parcel)]
        /\ \A u \in Thread : u # w => out'[u] = out[u]
    BY <1>1, <1>2, <1>4 DEF Inv, Types, ThreadTypes
  <2>2. \A c \in CallFrame : out'[c] \in {<<>>, <<<<"sin", c>>>>}
    BY <1>2, <2>1 DEF Inv, Types, ThreadTypes, Thread
  <2> QED
    BY <1>1, <1>3, <2>1, <2>2 DEF Inv, Types, ThreadTypes
<1>6. PipeTypes' /\ LockTypes'
  BY <1>1 DEF Inv, Types, PipeTypes, LockTypes
<1>7. \A q \in Pipe : ~Deaf(q)' => ~Deaf(q)
  BY <1>1, SameDeaf
<1> QED
  BY <1>1, <1>5, <1>6, <1>7, InvElsewhere

LEMMA PanicStep ==
    ASSUME Inv, NEW w \in Worker, Panic(w) PROVE Inv' /\ AbstractStep
<1>1. /\ queue # <<>> /\ queue' = Tail(queue) /\ ended' = ended \cup {w}
      /\ UNCHANGED <<pipe, header, locked, out, halfway, spawning, begun, gone, sent, got>>
  BY DEF Panic
<1>2. ThreadTypes'
  BY <1>1 DEF Inv, Types, ThreadTypes
<1>3. PipeTypes' /\ LockTypes'
  BY <1>1 DEF Inv, Types, PipeTypes, LockTypes
<1>4. \A q \in Pipe : ~Deaf(q)' => ~Deaf(q)
  BY <1>1 DEF Deaf
<1> QED
  BY <1>1, <1>2, <1>3, <1>4, InvElsewhere

LEMMA ExitStep ==
    ASSUME Inv, ServerExits \/ ProxyExits PROVE Inv' /\ AbstractStep
<1>1. UNCHANGED <<pipe, header, locked, out, halfway, spawning, queue, begun, ended, sent, got>>
  BY DEF ServerExits, ProxyExits
<1>2. \/ gone = "no" /\ gone' = "server"
      \/ gone = "server" /\ gone' = "proxy"
  BY DEF ServerExits, ProxyExits, Idle, Running
<1>3. PipeTypes' /\ ThreadTypes' /\ LockTypes'
  BY <1>1, <1>2 DEF Inv, Types, PipeTypes, ThreadTypes, LockTypes
<1>4. \A q \in Pipe : ~Deaf(q)' => ~Deaf(q)
  BY <1>1, <1>2 DEF Deaf
<1> QED
  BY <1>1, <1>3, <1>4, InvElsewhere

LEMMA InvNext == ASSUME Inv, [Next]_vars PROVE Inv' /\ AbstractStep
<1>1. CASE UNCHANGED vars
  <2>1. PipeTypes' /\ ThreadTypes' /\ LockTypes'
    BY <1>1 DEF Inv, Types, PipeTypes, ThreadTypes, LockTypes, vars
  <2>2. \A q \in Pipe : ~Deaf(q)' => ~Deaf(q)
    BY <1>1, SameDeaf DEF vars
  <2> QED
    BY <1>1, <2>1, <2>2, InvElsewhere DEF vars
<1>2. ASSUME NEW t \in Thread, Write(t) \/ Spawn(t) PROVE Inv' /\ AbstractStep
  BY <1>2, LockStep, HeaderStep, BodyStep, BrokenStep, FailStep, SpawnStep DEF Write
<1>3. ASSUME NEW p \in Pipe, Read(p) PROVE Inv' /\ AbstractStep
  BY <1>3, ReadHeaderStep, ReadBodyStep, ReadBrokenStep DEF Read
<1> QED
  BY <1>1, <1>2, <1>3, WorkStep, PanicStep, ClientStep, ServerStep, ExitStep DEF Next

-----------------------------------------------------------------------------
(* FlattenSeq. The function it is defined by exists for every sequence, so  *)
(* an Append concatenates and a prefix gives a prefix.                      *)

\* The first n concatenations of the elements of s.
Concats(s, n, f) == f = [i \in 1..n |-> IF i = 1 THEN s[i] ELSE f[i - 1] \o s[i]]

LEMMA ConcatsAt ==
    ASSUME NEW s, NEW n, NEW f, Concats(s, n, f), NEW i \in 1..n
    PROVE f[i] = (IF i = 1 THEN s[i] ELSE f[i - 1] \o s[i])
  BY Zenon DEF Concats

LEMMA ConcatsExist ==
    ASSUME NEW s, NEW n \in Nat
    PROVE \E f : Concats(s, n, f)
<1> DEFINE S == {k \in Nat : \E f : Concats(s, k, f)}
<1>1. 0 \in S
  <2>1. Concats(s, 0, [i \in 1..0 |-> s[i]])
    BY DEF Concats
  <2> QED
    BY <2>1
<1>2. ASSUME NEW k \in Nat, k \in S PROVE k + 1 \in S
  <2>1. PICK f : Concats(s, k, f)
    BY <1>2
  <2> DEFINE Extra(g, i) == IF i = 1 THEN s[i] ELSE g[i - 1] \o s[i]
             g == [i \in 1..(k + 1) |-> Extra(f, i)]
  <2>2. ASSUME NEW i \in 1..(k + 1) PROVE Extra(f, i) = Extra(g, i)
    <3>1. CASE i = 1
      BY <3>1
    <3>2. CASE i # 1
      <4>1. i - 1 \in 1..k /\ i - 1 \in 1..(k + 1)
        BY <3>2
      <4>2. f[i - 1] = Extra(f, i - 1) /\ g[i - 1] = Extra(f, i - 1)
        BY <2>1, <4>1 DEF Concats
      <4> QED
        BY <3>2, <4>2
    <3> QED
      BY <3>1, <3>2
  <2>3. Concats(s, k + 1, g)
    <3> HIDE DEF Extra
    <3>1. g = [i \in 1..(k + 1) |-> Extra(g, i)]
      BY <2>2
    <3> QED
      BY <3>1 DEF Concats, Extra
  <2> QED
    BY <2>3
<1> HIDE DEF S
<1>3. Nat \subseteq S
  BY <1>1, <1>2, Climb
<1> QED
  BY <1>3 DEF S

\* Sequences that agree up to n have the same first n concatenations.
LEMMA ConcatsAgree ==
    ASSUME NEW s, NEW t, NEW n \in Nat, \A i \in 1..n : s[i] = t[i],
           NEW f, Concats(s, n, f), NEW g, Concats(t, n + 1, g)
    PROVE \A i \in 1..n : f[i] = g[i]
<1> DEFINE S == {i \in Nat : i \in 1..n => f[i] = g[i]}
<1>1. 0 \in S
  OBVIOUS
<1>2. ASSUME NEW i \in Nat, i \in S PROVE i + 1 \in S
  <2> SUFFICES ASSUME i + 1 \in 1..n PROVE f[i + 1] = g[i + 1]
    OBVIOUS
  <2> PICK j : j = i + 1
    OBVIOUS
  <2>1. j \in 1..n /\ j \in 1..(n + 1) /\ s[j] = t[j] /\ j - 1 = i
    OBVIOUS
  <2>2. f[j] = (IF j = 1 THEN s[j] ELSE f[j - 1] \o s[j])
    BY <2>1, ConcatsAt
  <2>3. g[j] = (IF j = 1 THEN t[j] ELSE g[j - 1] \o t[j])
    BY <2>1, ConcatsAt
  <2>4. j # 1 => f[i] = g[i]
    BY <1>2
  <2> QED
    BY <2>1, <2>2, <2>3, <2>4
<1> HIDE DEF S
<1>3. Nat \subseteq S
  BY <1>1, <1>2, Climb
<1> QED
  BY <1>3 DEF S

LEMMA FlattenEmpty == FlattenSeq(<<>>) = <<>>
  BY DEF FlattenSeq

LEMMA FlattenConcats ==
    ASSUME NEW s, Len(s) \in Nat \ {0}
    PROVE \E f : Concats(s, Len(s), f) /\ FlattenSeq(s) = f[Len(s)]
<1> DEFINE f == CHOOSE f : Concats(s, Len(s), f)
<1>1. FlattenSeq(s) = f[Len(s)]
  BY Zenon DEF FlattenSeq, Concats
<1>2. Concats(s, Len(s), f)
  BY ConcatsExist, Zenon
<1> QED
  BY <1>1, <1>2, Zenon

\* One more element.
LEMMA FlattenStep ==
    ASSUME NEW s, NEW t, NEW n \in Nat, Len(s) = n, Len(t) = n + 1, \A i \in 1..n : s[i] = t[i]
    PROVE FlattenSeq(t) = (IF n = 0 THEN t[n + 1] ELSE FlattenSeq(s) \o t[n + 1])
<1>1. PICK g : Concats(t, n + 1, g) /\ FlattenSeq(t) = g[n + 1]
  BY FlattenConcats
<1>2. g[n + 1] = (IF n = 0 THEN t[n + 1] ELSE g[n] \o t[n + 1])
  <2> PICK m : m = n + 1
    OBVIOUS
  <2>1. m \in 1..m /\ m - 1 = n /\ (m = 1 <=> n = 0)
    OBVIOUS
  <2>2. g[m] = (IF m = 1 THEN t[m] ELSE g[m - 1] \o t[m])
    BY <1>1, <2>1, ConcatsAt
  <2> QED
    BY <2>1, <2>2
<1>3. ASSUME n # 0 PROVE FlattenSeq(s) = g[n]
  <2>1. PICK f : Concats(s, n, f) /\ FlattenSeq(s) = f[n]
    BY <1>3, FlattenConcats
  <2>2. \A i \in 1..n : f[i] = g[i]
    BY <1>1, <2>1, ConcatsAgree
  <2> QED
    BY <1>3, <2>1, <2>2
<1> QED
  BY <1>1, <1>2, <1>3

LEMMA FlattenMore ==
    ASSUME NEW X, NEW s \in Seq(Seq(X)), NEW e \in Seq(X), NEW t, NEW n, n = Len(s),
           Len(t) = n + 1, t[n + 1] = e, \A i \in 1..n : s[i] = t[i]
    PROVE FlattenSeq(t) = FlattenSeq(s) \o e
<1>1. n \in Nat
  OBVIOUS
<1>2. FlattenSeq(t) = (IF n = 0 THEN t[n + 1] ELSE FlattenSeq(s) \o t[n + 1])
  BY <1>1, FlattenStep, Zenon
<1>3. ASSUME n = 0 PROVE FlattenSeq(s) \o e = e
  <2>1. s = <<>>
    BY <1>3, EmptySeq, Zenon
  <2>2. FlattenSeq(s) = <<>>
    BY <2>1, FlattenEmpty, Zenon
  <2> QED
    BY <2>2
<1> QED
  BY <1>2, <1>3, Zenon

LEMMA FlattenAppend ==
    ASSUME NEW X, NEW s \in Seq(Seq(X)), NEW e \in Seq(X)
    PROVE FlattenSeq(Append(s, e)) = FlattenSeq(s) \o e
<1> PICK t, n : t = Append(s, e) /\ n = Len(s)
  OBVIOUS
<1>1. Len(t) = n + 1 /\ t[n + 1] = e /\ \A i \in 1..n : s[i] = t[i]
  OBVIOUS
<1> QED
  BY <1>1, FlattenMore, Zenon

\* A sequence of positive length is a shorter one and its last element.
LEMMA Shorter ==
    ASSUME NEW X, NEW s \in Seq(X), NEW n \in Nat, Len(s) = n + 1
    PROVE /\ SubSeq(s, 1, n) \in Seq(X) /\ Len(SubSeq(s, 1, n)) = n
          /\ s = Append(SubSeq(s, 1, n), s[n + 1]) /\ s[n + 1] \in X
          /\ \A i \in 1..n : SubSeq(s, 1, n)[i] = s[i]
  OBVIOUS

LEMMA FlattenTypes ==
    ASSUME NEW X, NEW s \in Seq(Seq(X)) PROVE FlattenSeq(s) \in Seq(X)
<1> DEFINE S == {n \in Nat : \A r \in Seq(Seq(X)) : Len(r) = n => FlattenSeq(r) \in Seq(X)}
<1>1. 0 \in S
  <2> SUFFICES ASSUME NEW r \in Seq(Seq(X)), Len(r) = 0 PROVE FlattenSeq(r) \in Seq(X)
    OBVIOUS
  <2>1. r = <<>> /\ <<>> \in Seq(X)
    OBVIOUS
  <2> QED
    BY <2>1, FlattenEmpty, Zenon
<1>2. ASSUME NEW n \in Nat, n \in S PROVE n + 1 \in S
  <2> SUFFICES ASSUME NEW r \in Seq(Seq(X)), Len(r) = n + 1 PROVE FlattenSeq(r) \in Seq(X)
    OBVIOUS
  <2> PICK q : q = SubSeq(r, 1, n)
    OBVIOUS
  <2>1. q \in Seq(Seq(X)) /\ Len(q) = n /\ r = Append(q, r[n + 1]) /\ r[n + 1] \in Seq(X)
    BY Shorter
  <2>2. FlattenSeq(q) \in Seq(X) /\ FlattenSeq(r) = FlattenSeq(q) \o r[n + 1]
    BY <1>2, <2>1, FlattenAppend
  <2> QED
    BY <2>1, <2>2
<1> HIDE DEF S
<1>3. Nat \subseteq S
  BY <1>1, <1>2, Climb
<1> QED
  BY <1>3 DEF S

\* s begins t.
Begins(s, t) == Len(s) <= Len(t) /\ \A i \in 1..Len(s) : s[i] = t[i]

LEMMA BeginsIsPrefix ==
    ASSUME NEW X, NEW s \in Seq(X), NEW t \in Seq(X), Begins(s, t)
    PROVE IsPrefix(s, t)
<1>1. Len(s) \in Nat /\ Len(t) \in Nat /\ Len(s) <= Len(t)
  BY DEF Begins
<1>2. SubSeq(s, 1, Len(s)) = [i \in 1..Len(s) |-> s[i]]
      /\ SubSeq(t, 1, Len(s)) = [i \in 1..Len(s) |-> t[i]]
  BY <1>1
<1> QED
  BY <1>1, <1>2 DEF Begins, IsPrefix

LEMMA BeginsConcat ==
    ASSUME NEW X, NEW s \in Seq(X), NEW t \in Seq(X), NEW u \in Seq(X), Begins(s, t)
    PROVE Begins(s, t \o u)
<1>1. /\ Len(t \o u) = Len(t) + Len(u) /\ Len(t) \in Nat /\ Len(u) \in Nat /\ Len(s) \in Nat
      /\ \A i \in 1..Len(t) : (t \o u)[i] = t[i]
  OBVIOUS
<1> QED
  BY <1>1 DEF Begins

LEMMA FlattenBegins ==
    ASSUME NEW X, NEW s \in Seq(Seq(X)), NEW t \in Seq(Seq(X)), Begins(s, t)
    PROVE Begins(FlattenSeq(s), FlattenSeq(t))
<1> DEFINE S == {n \in Nat : \A r \in Seq(Seq(X)) : Len(r) = n /\ Begins(s, r) =>
                                Begins(FlattenSeq(s), FlattenSeq(r))}
<1>1. ASSUME NEW r \in Seq(Seq(X)), Begins(s, r), Len(r) = Len(s) PROVE s = r
  BY <1>1, SeqEqual DEF Begins
<1>2. ASSUME NEW r PROVE Begins(r, r) \/ ~(Len(r) \in Nat)
  BY DEF Begins
<1>3. 0 \in S
  <2> SUFFICES ASSUME NEW r \in Seq(Seq(X)), Len(r) = 0, Begins(s, r)
               PROVE Begins(FlattenSeq(s), FlattenSeq(r))
    OBVIOUS
  <2>1. Len(r) = Len(s)
    BY DEF Begins
  <2>2. s = r
    BY <1>1, <2>1
  <2>3. FlattenSeq(r) \in Seq(X)
    BY FlattenTypes
  <2> QED
    BY <1>2, <2>2, <2>3
<1>4. ASSUME NEW n \in Nat, n \in S PROVE n + 1 \in S
  <2> SUFFICES ASSUME NEW r \in Seq(Seq(X)), Len(r) = n + 1, Begins(s, r)
               PROVE Begins(FlattenSeq(s), FlattenSeq(r))
    OBVIOUS
  <2>1. CASE Len(s) = n + 1
    <3>1. s = r
      BY <1>1, <2>1
    <3>2. FlattenSeq(r) \in Seq(X)
      BY FlattenTypes
    <3> QED
      BY <1>2, <3>1, <3>2
  <2>2. CASE Len(s) # n + 1
    <3>1. Len(s) <= n /\ Len(s) \in Nat
      BY <2>2 DEF Begins
    <3> PICK q : q = SubSeq(r, 1, n)
      OBVIOUS
    <3>2. /\ q \in Seq(Seq(X)) /\ Len(q) = n /\ r = Append(q, r[n + 1]) /\ r[n + 1] \in Seq(X)
          /\ \A i \in 1..n : q[i] = r[i]
      BY Shorter
    <3>3. Begins(s, q)
      BY <3>1, <3>2 DEF Begins
    <3>4. Begins(FlattenSeq(s), FlattenSeq(q))
      BY <1>4, <3>2, <3>3
    <3>5. FlattenSeq(r) = FlattenSeq(q) \o r[n + 1]
      BY <3>2, FlattenAppend
    <3>6. FlattenSeq(q) \in Seq(X) /\ FlattenSeq(s) \in Seq(X)
      BY <3>2, FlattenTypes
    <3> PICK a, b, c : a = FlattenSeq(s) /\ b = FlattenSeq(q) /\ c = r[n + 1]
      OBVIOUS
    <3>7. /\ a \in Seq(X) /\ b \in Seq(X) /\ c \in Seq(X) /\ Begins(a, b)
          /\ FlattenSeq(r) = b \o c
      BY <3>2, <3>4, <3>5, <3>6
    <3>8. Begins(a, b \o c)
      BY <3>7, BeginsConcat
    <3> QED
      BY <3>7, <3>8
  <2> QED
    BY <2>1, <2>2
<1> HIDE DEF S
<1>5. Nat \subseteq S
  BY <1>3, <1>4, Climb
<1> QED
  BY <1>5 DEF S

-----------------------------------------------------------------------------
(* The order of what the pump relays. Only the pump and the workers write   *)
(* to the client, the workers nothing but navigation answers; the pipe to   *)
(* the client has no frame without a length and is read to the end. What is *)
(* written there, without the workers' frames, and what the pump has left   *)
(* to write make up what it relays of the frames it has read.               *)

Navigation == {f \in ServerFrame : Kind[f] = "nav"}

\* What a thread may have in hand.
Hand(t) ==
    IF t = "pump" THEN {x \in Parcel : x[1] = "cout" /\ x[2] \notin Navigation /\ ~Broken(x[2])}
                  ELSE {x \in Parcel : x[1] = "cout" => x[2] \in Navigation}

Hands ==
    /\ \A t \in Thread : out[t] \in Seq(Hand(t))
    /\ queue \in Seq(Navigation)

ClientPipe == "cout" \notin ended /\ pipe["cout"] \in Seq(Frame \X {"header", "body"})

\* What was read of a pipe is the beginning of what was written to it.
ReadsBegin ==
    \A p \in Pipe : /\ sent[p] \in Seq(Carries(p)) /\ got[p] \in Seq(Carries(p))
                    /\ Begins(got[p], sent[p])

\* The frames the pump has in hand and has not begun to write.
Unwritten == IF "pump" \in halfway THEN Tail(out["pump"]) ELSE out["pump"]
FramesOf(parcels) == [i \in DOMAIN parcels |-> parcels[i][2]]

InOrder == DirectFrames(sent["cout"]) \o FramesOf(Unwritten) = RelayedFrames(got["sout"])

Order == Hands /\ ClientPipe /\ ReadsBegin /\ InOrder

LEMMA DirectTypes ==
    ASSUME NEW X, NEW f \in X PROVE Direct(f) \in Seq(X)
  BY DEF Direct

\* One more frame was written.
LEMMA DirectAppend ==
    ASSUME NEW X, NEW s \in Seq(X), NEW f \in X
    PROVE DirectFrames(Append(s, f)) = DirectFrames(s) \o Direct(f)
<1>1. PICK r, n : r = Append(s, f) /\ n = Len(s)
  OBVIOUS
<1>2. /\ n \in Nat /\ DOMAIN s = 1..n /\ DOMAIN r = 1..(n + 1)
      /\ r[n + 1] = f /\ \A i \in 1..n : s[i] = r[i] /\ s[i] \in X
  BY <1>1
<1>3. \A g \in X : Direct(g) \in Seq(X)
  BY DirectTypes
<1>4. PICK d, t : /\ d = [i \in 1..n |-> Direct(s[i])]
                  /\ t = [i \in 1..(n + 1) |-> Direct(r[i])]
  OBVIOUS
<1>5. d \in Seq(Seq(X)) /\ n = Len(d) /\ Direct(f) \in Seq(X)
  BY <1>2, <1>3, <1>4
<1>6. Len(t) = n + 1 /\ t[n + 1] = Direct(f) /\ \A i \in 1..n : d[i] = t[i]
  BY <1>2, <1>4
<1>7. FlattenSeq(t) = FlattenSeq(d) \o Direct(f)
  BY <1>5, <1>6, FlattenMore, Zenon
<1>8. DirectFrames(s) = FlattenSeq(d) /\ DirectFrames(r) = FlattenSeq(t)
  BY <1>2, <1>4 DEF DirectFrames
<1> QED
  BY <1>1, <1>7, <1>8

\* One more frame was read.
LEMMA RelayedAppend ==
    ASSUME NEW X, NEW s \in Seq(ServerFrame), NEW f \in ServerFrame, X = Carries("cout")
    PROVE RelayedFrames(Append(s, f)) = RelayedFrames(s) \o Relayed(f)
<1>1. PICK r, n : r = Append(s, f) /\ n = Len(s)
  OBVIOUS
<1>2. /\ n \in Nat /\ DOMAIN s = 1..n /\ DOMAIN r = 1..(n + 1)
      /\ r[n + 1] = f /\ \A i \in 1..n : s[i] = r[i] /\ s[i] \in ServerFrame
  BY <1>1
<1>3. \A g \in ServerFrame : Relayed(g) \in Seq(X)
  BY RelayedTypes
<1>4. PICK d, t : /\ d = [i \in 1..n |-> Relayed(s[i])]
                  /\ t = [i \in 1..(n + 1) |-> Relayed(r[i])]
  OBVIOUS
<1>5. d \in Seq(Seq(X)) /\ n = Len(d) /\ Relayed(f) \in Seq(X)
  BY <1>2, <1>3, <1>4
<1>6. Len(t) = n + 1 /\ t[n + 1] = Relayed(f) /\ \A i \in 1..n : d[i] = t[i]
  BY <1>2, <1>4
<1>7. FlattenSeq(t) = FlattenSeq(d) \o Relayed(f)
  BY <1>5, <1>6, FlattenMore, Zenon
<1>8. RelayedFrames(s) = FlattenSeq(d) /\ RelayedFrames(r) = FlattenSeq(t)
  BY <1>2, <1>4 DEF RelayedFrames
<1> QED
  BY <1>1, <1>7, <1>8

\* A beginning makes a beginning.
LEMMA DirectBegins ==
    ASSUME NEW X, NEW s \in Seq(X), NEW t \in Seq(X), Begins(s, t)
    PROVE Begins(DirectFrames(s), DirectFrames(t))
<1>1. PICK c, d : /\ c = [i \in 1..Len(s) |-> Direct(s[i])]
                  /\ d = [i \in 1..Len(t) |-> Direct(t[i])]
  OBVIOUS
<1>2. /\ DOMAIN s = 1..Len(s) /\ Len(s) \in Nat /\ \A i \in 1..Len(s) : Direct(s[i]) \in Seq(X)
      /\ DOMAIN t = 1..Len(t) /\ Len(t) \in Nat /\ \A i \in 1..Len(t) : Direct(t[i]) \in Seq(X)
  BY DirectTypes
<1>3. c \in Seq(Seq(X)) /\ d \in Seq(Seq(X)) /\ Len(c) = Len(s) /\ Len(d) = Len(t)
  BY <1>1, <1>2
<1>4. \A i \in 1..Len(s) : c[i] = d[i]
  BY <1>1, <1>2 DEF Begins
<1>5. Begins(c, d)
  BY <1>3, <1>4 DEF Begins
<1>6. DirectFrames(s) = FlattenSeq(c) /\ DirectFrames(t) = FlattenSeq(d)
  BY <1>1, <1>2 DEF DirectFrames
<1> QED
  BY <1>3, <1>5, <1>6, FlattenBegins

LEMMA HandParcel == \A t \in Thread : Hand(t) \subseteq Parcel
  BY DEF Hand

\* The first parcel a thread has in hand, and the others.
LEMMA FirstParcel ==
    ASSUME Order, NEW t \in Thread, out[t] # <<>>
    PROVE /\ Head(out[t]) \in Hand(t) /\ Tail(out[t]) \in Seq(Hand(t))
          /\ t = "pump" => Target(t) = "cout"
          /\ Target(t) = "cout" =>
                IF t = "pump" THEN Direct(ThisFrame(t)) = <<ThisFrame(t)>>
                              ELSE Direct(ThisFrame(t)) = <<>>
          /\ Target(t) = "cout" => ~Broken(ThisFrame(t))
<1>1. out[t] \in Seq(Hand(t))
  BY DEF Order, Hands
<1>2. Head(out[t]) \in Hand(t) /\ Tail(out[t]) \in Seq(Hand(t))
  BY <1>1
<1> QED
  BY <1>2 DEF Hand, Navigation, Target, ThisFrame, Direct, Broken

LEMMA PumpThere == "pump" \in Thread
  BY DEF Thread

\* A thread other than the pump may hold what does not go to the client.
LEMMA OtherParcels ==
    ASSUME NEW t \in Thread, t # "pump", NEW p \in Pipe, p # "cout", NEW s \in Seq(Carries(p))
    PROVE To(p, s) \in Seq(Hand(t))
<1>1. /\ To(p, s) \in Seq(Parcel) /\ To(p, s) = [i \in 1..Len(s) |-> <<p, s[i]>>]
      /\ Len(s) \in Nat
  BY ToTypes DEF To
<1>2. \A i \in 1..Len(s) : <<p, s[i]>> \in Parcel
  BY CarriesFrames DEF Parcel
<1>3. \A i \in 1..Len(s) : <<p, s[i]>> \in Hand(t)
  BY <1>2 DEF Hand
<1> QED
  BY <1>1, <1>3

\* The pump relays neither navigation answers nor what has no length, and a log
\* line is no frame of the server.
LEMMA RelayedHand ==
    ASSUME NEW f \in ServerFrame, ~ToWorkers(f) PROVE To("cout", Relayed(f)) \in Seq(Hand("pump"))
<1>1. PICK r : r = Relayed(f)
  OBVIOUS
<1>2. r \in Seq(Carries("cout")) /\ "cout" \in Pipe
  BY <1>1, RelayedTypes DEF Pipe
<1>3. To("cout", r) = [i \in 1..Len(r) |-> <<"cout", r[i]>>] /\ Len(r) \in Nat
  BY <1>2 DEF To
<1>4. <<f, "log">> \notin ServerFrame /\ <<f, "show">> \notin ServerFrame
  BY LineAssumption DEF Line
<1>5. Kind[f] \in {"plain", "log", "swallowed", "broken"}
  BY KindAssumption DEF ToWorkers
<1>6. \A i \in 1..Len(r) : r[i] \notin Navigation /\ ~Broken(r[i])
  <2>1. CASE Kind[f] = "plain"
    <3>1. r = <<f>> /\ f \notin Navigation /\ ~Broken(f)
      BY <1>1, <2>1 DEF Relayed, Navigation, Broken
    <3> QED
      BY <3>1
  <2>2. CASE Kind[f] = "log"
    <3>1. r = Lines(f)
      BY <1>1, <2>2 DEF Relayed
    <3>2. \A i \in 1..Len(r) : r[i] \in {<<f, "log">>, <<f, "show">>}
      BY <3>1 DEF Lines
    <3> QED
      BY <1>4, <3>2 DEF Navigation, Broken
  <2>3. CASE Kind[f] \in {"swallowed", "broken"}
    <3>1. r = <<>>
      BY <1>1, <2>3 DEF Relayed
    <3> QED
      BY <3>1
  <2> QED
    BY <1>5, <2>1, <2>2, <2>3
<1>7. \A i \in 1..Len(r) : <<"cout", r[i]>> \in Hand("pump")
  <2>1. \A i \in 1..Len(r) : r[i] \in Carries("cout")
    BY <1>2
  <2> QED
    BY <1>2, <1>6, <2>1, CarriesFrames DEF Hand, Parcel
<1> QED
  BY <1>1, <1>3, <1>7

\* Steps that neither write a header nor read a body.
LEMMA OrderElsewhere ==
    ASSUME Order, \A t \in Thread : out'[t] \in Seq(Hand(t)), queue' \in Seq(Navigation),
           "cout" \notin ended', pipe'["cout"] \in Seq(Frame \X {"header", "body"}),
           FramesOf(Unwritten)' = FramesOf(Unwritten), UNCHANGED <<sent, got>>
    PROVE Order'
<1>1. Hands' /\ ClientPipe'
  BY DEF Hands, ClientPipe
<1>2. ReadsBegin'
  BY DEF Order, ReadsBegin
<1>3. InOrder'
  BY DEF Order, InOrder
<1> QED
  BY <1>1, <1>2, <1>3 DEF Order

\* Steps in which only a thread other than the pump gets new parcels.
LEMMA OrderBegin ==
    ASSUME Inv, Order, NEW t \in Thread, t # "pump", NEW s \in Seq(Hand(t)),
           out' = [out EXCEPT ![t] = s], queue' \in Seq(Navigation),
           "pump" \in halfway' <=> "pump" \in halfway,
           UNCHANGED <<pipe, ended, sent, got>>
    PROVE Order'
<1>1. out \in [Thread -> Seq(Parcel)]
  BY DEF Inv, Types, ThreadTypes
<1>2. \A u \in Thread : out'[u] \in Seq(Hand(u))
  BY <1>1 DEF Order, Hands
<1>3. out'["pump"] = out["pump"]
  BY <1>1, PumpThere
<1>4. FramesOf(Unwritten)' = FramesOf(Unwritten)
  BY <1>3 DEF FramesOf, Unwritten
<1> QED
  BY <1>2, <1>4, OrderElsewhere DEF Order, ClientPipe

LEMMA OrderInit == Init => Order
<1> SUFFICES ASSUME Init PROVE Order
  OBVIOUS
<1>1. Hands /\ ClientPipe
  BY DEF Init, Hands, ClientPipe, Pipe
<1>2. ReadsBegin
  BY DEF Init, ReadsBegin, Begins
<1>3. InOrder
  <2>1. sent["cout"] = <<>> /\ got["sout"] = <<>> /\ Unwritten = <<>>
    BY PumpThere DEF Init, Unwritten, Pipe
  <2>2. DirectFrames(<<>>) = <<>> /\ RelayedFrames(<<>>) = <<>> /\ FramesOf(<<>>) = <<>>
    BY FlattenEmpty DEF DirectFrames, RelayedFrames, FramesOf
  <2>3. <<>> \o <<>> = <<>>
    OBVIOUS
  <2> QED
    BY <2>1, <2>2, <2>3, Zenon DEF InOrder
<1> QED
  BY <1>1, <1>2, <1>3 DEF Order

LEMMA BeginsAppend ==
    ASSUME NEW X, NEW s \in Seq(X), NEW t \in Seq(X), NEW x \in X, Begins(s, t)
    PROVE /\ Begins(s, Append(t, x))
          /\ Len(s) < Len(t) /\ x = t[Len(s) + 1] => Begins(Append(s, x), t)
<1>1. /\ Len(Append(t, x)) = Len(t) + 1 /\ Len(Append(s, x)) = Len(s) + 1
      /\ Append(s, x)[Len(s) + 1] = x /\ Len(t) \in Nat /\ Len(s) \in Nat
      /\ \A i \in 1..Len(s) : Append(s, x)[i] = s[i]
      /\ \A i \in 1..Len(t) : Append(t, x)[i] = t[i]
  OBVIOUS
<1> QED
  BY <1>1 DEF Begins

\* The frames of parcels.
LEMMA FramesOfParcels ==
    ASSUME NEW q \in Seq(Parcel)
    PROVE /\ FramesOf(q) \in Seq(Frame)
          /\ q # <<>> => FramesOf(q) = <<Head(q)[2]>> \o FramesOf(Tail(q))
<1>1. /\ DOMAIN q = 1..Len(q) /\ Len(q) \in Nat /\ \A i \in 1..Len(q) : q[i][2] \in Frame
  BY DEF Parcel
<1>2. FramesOf(q) = [i \in 1..Len(q) |-> q[i][2]]
  BY <1>1 DEF FramesOf
<1>3. FramesOf(q) \in Seq(Frame)
  BY <1>1, <1>2
<1>4. ASSUME q # <<>> PROVE FramesOf(q) = <<Head(q)[2]>> \o FramesOf(Tail(q))
  <2>1. PICK r, n : r = Tail(q) /\ n = Len(q)
    OBVIOUS
  <2>2. /\ r \in Seq(Parcel) /\ DOMAIN r = 1..(n - 1) /\ n \in Nat /\ n > 0
        /\ Head(q) = q[1] /\ \A i \in 1..(n - 1) : r[i] = q[i + 1]
    BY <1>4, <2>1
  <2>3. FramesOf(r) = [i \in 1..(n - 1) |-> q[i + 1][2]] /\ FramesOf(r) \in Seq(Frame)
    <3>1. \A i \in 1..(n - 1) : r[i][2] = q[i + 1][2] /\ r[i][2] \in Frame
      BY <1>1, <2>1, <2>2
    <3>2. FramesOf(r) = [i \in 1..(n - 1) |-> r[i][2]]
      BY <2>2 DEF FramesOf
    <3> QED
      BY <2>2, <3>1, <3>2
  <2>4. PICK u : u = FramesOf(r)
    OBVIOUS
  <2>5. u \in Seq(Frame) /\ Len(u) = n - 1 /\ \A i \in 1..(n - 1) : u[i] = q[i + 1][2]
    BY <2>2, <2>3, <2>4
  <2>6. <<q[1][2]>> \o u = [i \in 1..n |-> IF i = 1 THEN q[1][2] ELSE u[i - 1]]
    BY <2>2, <2>5
  <2>7. \A i \in 1..n : (IF i = 1 THEN q[1][2] ELSE u[i - 1]) = q[i][2]
    <3> SUFFICES ASSUME NEW i \in 1..n, i # 1 PROVE u[i - 1] = q[i][2]
      OBVIOUS
    <3>1. i - 1 \in 1..(n - 1) /\ (i - 1) + 1 = i
      BY <2>2
    <3> QED
      BY <2>5, <3>1
  <2> QED
    BY <1>2, <2>1, <2>2, <2>4, <2>6, <2>7
<1> QED
  BY <1>3, <1>4

LEMMA FramesOfTo ==
    ASSUME NEW p, NEW X, NEW s \in Seq(X) PROVE FramesOf(To(p, s)) = s
<1>1. DOMAIN s = 1..Len(s) /\ s = [i \in 1..Len(s) |-> s[i]]
  OBVIOUS
<1> QED
  BY <1>1 DEF FramesOf, To

LEMMA DirectFramesTypes ==
    ASSUME NEW X, NEW s \in Seq(X) PROVE DirectFrames(s) \in Seq(X)
<1>1. PICK d : d = [i \in 1..Len(s) |-> Direct(s[i])]
  OBVIOUS
<1>2. DOMAIN s = 1..Len(s) /\ Len(s) \in Nat /\ \A i \in 1..Len(s) : Direct(s[i]) \in Seq(X)
  BY DirectTypes
<1>3. d \in Seq(Seq(X))
  BY <1>1, <1>2
<1>4. DirectFrames(s) = FlattenSeq(d)
  BY <1>1, <1>2 DEF DirectFrames
<1> QED
  BY <1>3, <1>4, FlattenTypes, Zenon

LEMMA OrderHeader ==
    ASSUME Inv, Order, NEW t \in Thread, WriteHeader(t) PROVE Order'
<1>1. PICK p, f : p = Target(t) /\ f = ThisFrame(t)
  OBVIOUS
<1>2. /\ out[t] # <<>> /\ t \notin halfway /\ halfway' = halfway \cup {t}
      /\ pipe' = [pipe EXCEPT ![p] = Append(@, <<f, "header">>)]
      /\ sent' = [sent EXCEPT ![p] = Append(@, f)]
      /\ UNCHANGED <<out, queue, ended, got>>
  BY <1>1 DEF WriteHeader, Writing, Put
<1>3. p \in Pipe /\ f \in Carries(p) /\ f \in Frame
  BY <1>1, <1>2, InHand DEF Inv
<1>4. Hands'
  BY <1>2 DEF Order, Hands, Hand
<1>5. ClientPipe'
  <2>1. <<f, "header">> \in Frame \X {"header", "body"}
    BY <1>3
  <2>2. pipe["cout"] \in Seq(Frame \X {"header", "body"}) /\ "cout" \notin ended
    BY DEF Order, ClientPipe
  <2>3. pipe'["cout"] = IF p = "cout" THEN Append(pipe["cout"], <<f, "header">>) ELSE pipe["cout"]
    BY <1>2, <1>3 DEF Inv, Types, PipeTypes, Pipe
  <2> QED
    BY <1>2, <2>1, <2>2, <2>3 DEF ClientPipe
<1>6. ReadsBegin'
  <2> SUFFICES ASSUME NEW q \in Pipe
               PROVE /\ sent'[q] \in Seq(Carries(q)) /\ got'[q] \in Seq(Carries(q))
                     /\ Begins(got'[q], sent'[q])
    BY DEF ReadsBegin, Carries
  <2>1. /\ sent[q] \in Seq(Carries(q)) /\ got[q] \in Seq(Carries(q)) /\ Begins(got[q], sent[q])
        /\ got'[q] = got[q]
    BY <1>2 DEF Order, ReadsBegin
  <2>2. sent'[q] = IF q = p THEN Append(sent[q], f) ELSE sent[q]
    BY <1>2 DEF Inv, Types, PipeTypes
  <2> QED
    BY <1>3, <2>1, <2>2, BeginsAppend
<1>7. InOrder'
  <2>1. PICK s, d, u, r : /\ s = sent["cout"] /\ d = DirectFrames(s) /\ u = FramesOf(Unwritten)
                          /\ r = RelayedFrames(got["sout"])
    OBVIOUS
  <2>2. s \in Seq(Frame) /\ d \in Seq(Frame) /\ u \in Seq(Frame) /\ d \o u = r
    <3>1. s \in Seq(Frame)
      BY <2>1 DEF Inv, Types, PipeTypes, Pipe
    <3>2. Unwritten \in Seq(Parcel)
      BY PumpThere, InHand DEF Inv, Types, ThreadTypes, Unwritten, OneWriter, HalfwayHolds
    <3> QED
      BY <2>1, <3>1, <3>2, DirectFramesTypes, FramesOfParcels DEF Order, InOrder
  <2>3. RelayedFrames(got["sout"])' = r
    BY <1>2, <2>1
  <2>4. sent'["cout"] = IF p = "cout" THEN Append(s, f) ELSE s
    BY <1>2, <1>3, <2>1 DEF Inv, Types, PipeTypes, Pipe
  <2>5. DirectFrames(Append(s, f)) = d \o Direct(f)
    BY <1>3, <2>1, <2>2, DirectAppend
  <2>6. CASE t = "pump"
    <3>1. p = "cout" /\ Direct(f) = <<f>>
      BY <1>1, <1>2, <2>6, FirstParcel
    <3>2. Unwritten = out[t] /\ Unwritten' = Tail(out[t])
      BY <1>2, <2>6 DEF Unwritten
    <3>3. out[t] \in Seq(Parcel) /\ Tail(out[t]) \in Seq(Parcel)
      BY <1>2, InHand DEF Inv, Types, ThreadTypes
    <3>4. u = <<f>> \o FramesOf(Tail(out[t])) /\ FramesOf(Tail(out[t])) \in Seq(Frame)
      BY <1>1, <1>2, <2>1, <3>2, <3>3, FramesOfParcels DEF ThisFrame
    <3>5. (d \o <<f>>) \o FramesOf(Tail(out[t])) = d \o (<<f>> \o FramesOf(Tail(out[t])))
      <4>1. <<f>> \in Seq(Frame)
        BY <1>3
      <4> QED
        BY <2>2, <3>4, <4>1, ConcatAssociative
    <3>6. DirectFrames(sent["cout"])' = d \o <<f>>
      BY <2>4, <2>5, <3>1
    <3>7. FramesOf(Unwritten)' = FramesOf(Tail(out[t]))
      BY <3>2 DEF FramesOf
    <3> QED
      BY <2>2, <2>3, <3>4, <3>5, <3>6, <3>7 DEF InOrder
  <2>7. CASE t # "pump"
    <3>1. p = "cout" => Direct(f) = <<>>
      BY <1>1, <1>2, <2>7, FirstParcel
    <3>2. DirectFrames(sent["cout"])' = d
      <4>1. d \o <<>> = d
        BY <2>2
      <4> QED
        BY <2>1, <2>4, <2>5, <3>1, <4>1
    <3>3. FramesOf(Unwritten)' = u
      BY <1>2, <2>1, <2>7 DEF FramesOf, Unwritten
    <3> QED
      BY <2>2, <2>3, <3>2, <3>3 DEF InOrder
  <2> QED
    BY <2>6, <2>7
<1> QED
  BY <1>4, <1>5, <1>6, <1>7 DEF Order

\* The end of a frame; the pump always gets there by way of a header.
LEMMA OrderRelease ==
    ASSUME Inv, Order, NEW t \in Thread, out[t] # <<>>, Release(t),
           t = "pump" => t \in halfway,
           pipe'["cout"] \in Seq(Frame \X {"header", "body"}),
           UNCHANGED <<queue, ended, sent, got>>
    PROVE Order'
<1>1. out' = [out EXCEPT ![t] = Tail(@)] /\ halfway' = halfway \ {t}
  BY DEF Release
<1>2. out \in [Thread -> Seq(Parcel)]
  BY DEF Inv, Types, ThreadTypes
<1>3. Tail(out[t]) \in Seq(Hand(t))
  BY FirstParcel
<1>4. \A u \in Thread : out'[u] \in Seq(Hand(u))
  BY <1>1, <1>2, <1>3 DEF Order, Hands
<1>5. Unwritten' = Unwritten
  BY <1>1, <1>2, PumpThere DEF Unwritten
<1>6. FramesOf(Unwritten)' = FramesOf(Unwritten)
  BY <1>5 DEF FramesOf
<1> QED
  BY <1>4, <1>6, OrderElsewhere DEF Order, Hands, ClientPipe

LEMMA OrderBody ==
    ASSUME Inv, Order, NEW t \in Thread, WriteBody(t) PROVE Order'
<1>1. PICK p, f : p = Target(t) /\ f = ThisFrame(t)
  OBVIOUS
<1>2. /\ out[t] # <<>> /\ t \in halfway /\ Release(t)
      /\ pipe' = [pipe EXCEPT ![p] = Append(@, <<f, "body">>)]
      /\ UNCHANGED <<queue, ended, sent, got>>
  BY <1>1 DEF WriteBody, Writing, Put
<1>3. p \in Pipe /\ f \in Frame
  BY <1>1, <1>2, InHand DEF Inv
<1>4. pipe'["cout"] \in Seq(Frame \X {"header", "body"})
  <2>1. <<f, "body">> \in Frame \X {"header", "body"}
    BY <1>3
  <2>2. pipe["cout"] \in Seq(Frame \X {"header", "body"})
    BY DEF Order, ClientPipe
  <2>3. pipe'["cout"] = IF p = "cout" THEN Append(pipe["cout"], <<f, "body">>) ELSE pipe["cout"]
    BY <1>2, <1>3 DEF Inv, Types, PipeTypes, Pipe
  <2> QED
    BY <2>1, <2>2, <2>3
<1> QED
  BY <1>2, <1>4, OrderRelease

\* What has no length is not for the client.
LEMMA OrderBroken ==
    ASSUME Inv, Order, NEW t \in Thread, WriteBroken(t) PROVE Order'
<1>1. /\ out[t] # <<>> /\ Broken(ThisFrame(t)) /\ Release(t)
      /\ pipe' = [pipe EXCEPT ![Target(t)] = Append(@, <<ThisFrame(t), "other">>)]
      /\ UNCHANGED <<queue, ended, sent, got>>
  BY DEF WriteBroken, Writing, Put
<1>2. Target(t) # "cout" /\ t # "pump"
  BY <1>1, FirstParcel
<1>3. pipe'["cout"] = pipe["cout"]
  BY <1>1, <1>2 DEF Inv, Types, PipeTypes, Pipe
<1> QED
  BY <1>1, <1>2, <1>3, OrderRelease DEF Order, ClientPipe

LEMMA OrderFail ==
    ASSUME Inv, Order, NEW t \in Thread, WriteFails(t) PROVE Order'
<1>1. /\ out[t] # <<>> /\ Deaf(Target(t)) /\ Release(t)
      /\ UNCHANGED <<pipe, queue, ended, sent, got>>
  BY DEF WriteFails, Writing
<1>2. ~Deaf("cout")
  BY DEF Order, ClientPipe, Deaf
<1>3. t # "pump"
  BY <1>1, <1>2, FirstParcel
<1> QED
  BY <1>1, <1>3, OrderRelease DEF Order, ClientPipe

LEMMA OrderReadHeader ==
    ASSUME Inv, Order, NEW p \in Pipe, ReadHeader(p) \/ ReadBroken(p) PROVE Order'
<1>1. /\ pipe[p] # <<>> /\ ~Deaf(p) /\ pipe' = [pipe EXCEPT ![p] = Tail(@)]
      /\ UNCHANGED <<out, queue, halfway, sent, got>>
  BY DEF ReadHeader, ReadBroken, Reading
<1>2. pipe'["cout"] \in Seq(Frame \X {"header", "body"})
  <2>1. pipe["cout"] \in Seq(Frame \X {"header", "body"})
    BY DEF Order, ClientPipe
  <2>2. pipe'["cout"] = IF p = "cout" THEN Tail(pipe["cout"]) ELSE pipe["cout"]
    BY <1>1 DEF Inv, Types, PipeTypes, Pipe
  <2> QED
    BY <1>1, <2>1, <2>2
<1>3. "cout" \notin ended'
  <2>1. CASE ReadHeader(p)
    BY <2>1 DEF ReadHeader, Order, ClientPipe
  <2>2. CASE ReadBroken(p)
    <3>1. header[p] = None /\ Head(pipe[p])[2] # "header" /\ ended' = ended \cup {p}
      BY <2>2 DEF ReadBroken, Next1, GiveUp
    <3>2. p # "cout"
      <4> SUFFICES ASSUME p = "cout" PROVE FALSE
        OBVIOUS
      <4>1. Head(pipe[p])[2] = "body"
        <5>1. pipe[p] \in Seq(Frame \X {"header", "body"})
          BY DEF Order, ClientPipe
        <5>2. Head(pipe[p]) \in Frame \X {"header", "body"}
          BY <1>1, <5>1
        <5> QED
          BY <3>1, <5>2
      <4>2. /\ pipe[p] \in Seq(Token) /\ sent[p] \in Seq(Frame) /\ Len(got[p]) \in Nat
            /\ Half(p) \in BOOLEAN
        BY DEF Inv, Types, PipeTypes, Half
      <4>3. Fits(pipe[p], None, Len(got[p]), sent[p], Half(p))
        BY <1>1, <3>1 DEF Inv, Contents, ContentsOf
      <4> QED
        BY <1>1, <4>1, <4>2, <4>3, NoBodyFirst
    <3> QED
      BY <3>1, <3>2 DEF Order, ClientPipe
  <2> QED
    BY <2>1, <2>2
<1>4. FramesOf(Unwritten)' = FramesOf(Unwritten)
  BY <1>1 DEF FramesOf, Unwritten
<1> QED
  BY <1>1, <1>2, <1>3, <1>4, OrderElsewhere DEF Order, Hands

LEMMA OrderReadBody ==
    ASSUME Inv, Order, NEW p \in Pipe, ReadBody(p) PROVE Order'
<1>1. PICK f : f = header[p]
  OBVIOUS
<1>2. /\ pipe[p] # <<>> /\ f # None /\ out[Reader(p)] = <<>>
      /\ pipe' = [pipe EXCEPT ![p] = Tail(@)]
      /\ UNCHANGED <<halfway, ended, sent>>
  BY <1>1 DEF ReadBody, Reading, Idle
<1>3. /\ Head(pipe[p]) = <<f, "body">> /\ Len(got[p]) < Len(sent[p])
      /\ f = sent[p][Len(got[p]) + 1]
  BY <1>1, WholeFrame
<1>4. got' = [got EXCEPT ![p] = Append(@, f)] /\ Handle(p, f)
  BY <1>1, <1>3 DEF ReadBody, Next1
<1>5. f \in Carries(p) /\ f \in Frame
  BY <1>1, <1>2, CarriesFrames DEF Inv, Types, PipeTypes
<1>6. ClientPipe'
  <2>1. pipe["cout"] \in Seq(Frame \X {"header", "body"}) /\ "cout" \notin ended
    BY DEF Order, ClientPipe
  <2>2. pipe'["cout"] = IF p = "cout" THEN Tail(pipe["cout"]) ELSE pipe["cout"]
    BY <1>2 DEF Inv, Types, PipeTypes, Pipe
  <2> QED
    BY <1>2, <2>1, <2>2 DEF ClientPipe
<1>7. ReadsBegin'
  <2> SUFFICES ASSUME NEW q \in Pipe
               PROVE /\ sent'[q] \in Seq(Carries(q)) /\ got'[q] \in Seq(Carries(q))
                     /\ Begins(got'[q], sent'[q])
    BY DEF ReadsBegin, Carries
  <2>1. /\ sent[q] \in Seq(Carries(q)) /\ got[q] \in Seq(Carries(q)) /\ Begins(got[q], sent[q])
        /\ sent'[q] = sent[q]
    BY <1>2 DEF Order, ReadsBegin
  <2>2. got'[q] = IF q = p THEN Append(got[q], f) ELSE got[q]
    BY <1>4 DEF Inv, Types, PipeTypes
  <2> QED
    BY <1>3, <1>5, <2>1, <2>2, BeginsAppend
<1>8. out \in [Thread -> Seq(Parcel)] /\ Reader(p) \in Thread
  BY ReaderThread DEF Inv, Types, ThreadTypes
<1>9. Hands' /\ (p # "sout" => InOrder')
  <2>1. ASSUME NEW t \in Thread, t # "pump", NEW s \in Seq(Hand(t)), p # "sout",
               out' = [out EXCEPT ![t] = s], queue' = queue
        PROVE Hands' /\ InOrder'
    <3>1. \A u \in Thread : out'[u] \in Seq(Hand(u))
      BY <1>8, <2>1 DEF Order, Hands
    <3>2. out'["pump"] = out["pump"] /\ got'["sout"] = got["sout"]
      BY <1>4, <1>8, <2>1, PumpThere DEF Inv, Types, PipeTypes, Pipe
    <3>3. FramesOf(Unwritten)' = FramesOf(Unwritten)
      BY <1>2, <3>2 DEF FramesOf, Unwritten
    <3>4. RelayedFrames(got["sout"])' = RelayedFrames(got["sout"])
      BY <3>2
    <3>5. DirectFrames(sent["cout"])' = DirectFrames(sent["cout"])
      BY <1>2
    <3> QED
      BY <2>1, <3>1, <3>3, <3>4, <3>5 DEF Order, Hands, InOrder
  <2>2. CASE p = "cin"
    <3>1. out' = [out EXCEPT !["main"] = To("sin", Forwarded(f))] /\ queue' = queue
      BY <1>4, <2>2 DEF Handle
    <3>2. To("sin", Forwarded(f)) \in Seq(Hand("main")) /\ "main" \in Thread
      <4>1. f \in Carries("sin") /\ "main" \in Thread /\ "sin" \in Pipe
        BY <1>5, <2>2 DEF Carries, Thread, Pipe
      <4>2. Forwarded(f) \in Seq(Carries("sin"))
        BY <4>1 DEF Forwarded
      <4> QED
        BY <4>1, <4>2, OtherParcels
    <3> QED
      BY <2>1, <2>2, <3>1, <3>2
  <2>3. CASE p = "sin"
    <3>1. out' = [out EXCEPT !["server"] = To("sout", Reply[f])] /\ queue' = queue
      BY <1>4, <2>3 DEF Handle
    <3>2. To("sout", Reply[f]) \in Seq(Hand("server")) /\ "server" \in Thread
      <4>1. Reply[f] \in Seq(Carries("sout")) /\ "server" \in Thread /\ "sout" \in Pipe
        BY <1>5, <2>3, ScriptAssumption DEF Carries, Thread, Pipe
      <4> QED
        BY <4>1, OtherParcels
    <3> QED
      BY <2>1, <2>3, <3>1, <3>2
  <2>4. CASE p = "cout"
    <3>1. out' = out /\ queue' = queue
      BY <1>4, <2>4 DEF Handle
    <3>2. "server" \in Thread /\ out["server"] \in Seq(Hand("server"))
      BY DEF Order, Hands, Thread
    <3>3. out' = [out EXCEPT !["server"] = out["server"]]
      BY <1>8, <3>1, <3>2
    <3> QED
      BY <2>1, <2>4, <3>1, <3>2, <3>3
  <2>5. CASE p = "sout"
    <3>1. f \in ServerFrame
      BY <1>5, <2>5 DEF Carries
    <3>2. CASE ToWorkers(f)
      <4>1. queue' = Append(queue, f) /\ out' = out
        BY <1>4, <2>5, <3>2 DEF Handle
      <4>2. f \in Navigation
        BY <3>1, <3>2 DEF Navigation, ToWorkers
      <4>3. queue' \in Seq(Navigation)
        <5>1. queue \in Seq(Navigation)
          BY DEF Order, Hands
        <5> QED
          BY <4>1, <4>2, <5>1
      <4>4. \A u \in Thread : out'[u] \in Seq(Hand(u))
        BY <4>1 DEF Order, Hands
      <4> QED
        BY <2>5, <4>3, <4>4 DEF Hands
    <3>3. CASE ~ToWorkers(f)
      <4>1. out' = [out EXCEPT !["pump"] = To("cout", Relayed(f))] /\ queue' = queue
        BY <1>4, <2>5, <3>3 DEF Handle
      <4>2. To("cout", Relayed(f)) \in Seq(Hand("pump"))
        BY <3>1, <3>3, RelayedHand
      <4>3. \A u \in Thread : out'[u] \in Seq(Hand(u))
        BY <1>8, <4>1, <4>2, PumpThere DEF Order, Hands
      <4> QED
        BY <2>5, <4>1, <4>3 DEF Order, Hands
    <3> QED
      BY <3>2, <3>3
  <2> QED
    BY <2>2, <2>3, <2>4, <2>5 DEF Pipe
<1>10. ASSUME p = "sout" PROVE InOrder'
  <2>1. f \in ServerFrame /\ Carries("sout") = ServerFrame
    BY <1>5, <1>10 DEF Carries
  <2>2. PICK d, r, x : /\ d = DirectFrames(sent["cout"]) /\ r = RelayedFrames(got["sout"])
                       /\ x = Relayed(f)
    OBVIOUS
  <2>3. d \in Seq(Carries("cout")) /\ x \in Seq(Carries("cout"))
    BY <2>1, <2>2, DirectFramesTypes, RelayedTypes DEF Order, ReadsBegin, Pipe
  <2>4. out["pump"] = <<>> /\ "pump" \notin halfway
    BY <1>2, <1>10 DEF Reader, Inv, OneWriter, HalfwayHolds
  <2>5. FramesOf(<<>>) = <<>> /\ d \o <<>> = d
    BY <2>3 DEF FramesOf
  <2>6. d = r
    <3>1. Unwritten = <<>>
      BY <2>4 DEF Unwritten
    <3> QED
      BY <2>2, <2>5, <3>1 DEF Order, InOrder
  <2>7. RelayedFrames(got["sout"])' = r \o x
    <3>1. got'["sout"] = Append(got["sout"], f) /\ got["sout"] \in Seq(ServerFrame)
      BY <1>4, <1>10, <2>1 DEF Order, ReadsBegin, Inv, Types, PipeTypes, Pipe
    <3> QED
      BY <2>1, <2>2, <3>1, RelayedAppend
  <2>8. DirectFrames(sent["cout"])' = d
    BY <1>2, <2>2
  <2>9. FramesOf(Unwritten)' = x
    <3>1. CASE ToWorkers(f)
      <4>1. out' = out
        BY <1>4, <1>10, <3>1 DEF Handle
      <4>2. Unwritten' = <<>>
        BY <1>2, <2>4, <4>1 DEF Unwritten
      <4>3. x = <<>>
        BY <2>2, <3>1 DEF Relayed, ToWorkers
      <4>4. FramesOf(Unwritten)' = FramesOf(<<>>)
        BY <4>2 DEF FramesOf
      <4> QED
        BY <2>5, <4>3, <4>4
    <3>2. CASE ~ToWorkers(f)
      <4>1. out' = [out EXCEPT !["pump"] = To("cout", x)]
        BY <1>4, <1>10, <2>2, <3>2 DEF Handle
      <4>2. Unwritten' = To("cout", x)
        BY <1>2, <1>8, <2>4, <4>1, PumpThere DEF Unwritten
      <4>3. FramesOf(Unwritten)' = FramesOf(To("cout", x))
        BY <4>2 DEF FramesOf
      <4> QED
        BY <2>3, <4>3, FramesOfTo
    <3> QED
      BY <3>1, <3>2
  <2> QED
    BY <2>6, <2>7, <2>8, <2>9 DEF InOrder
<1> QED
  BY <1>6, <1>7, <1>9, <1>10 DEF Order

LEMMA OrderNext == ASSUME Inv, Order, [Next]_vars PROVE Order'
<1>1. out \in [Thread -> Seq(Parcel)] /\ queue \in Seq(Navigation)
  BY DEF Inv, Types, ThreadTypes, Order, Hands
<1>2. CASE UNCHANGED vars
  <2>1. FramesOf(Unwritten)' = FramesOf(Unwritten)
    BY <1>2 DEF vars, FramesOf, Unwritten
  <2> QED
    BY <1>2, <2>1, OrderElsewhere DEF vars, Order, Hands, ClientPipe
<1>3. ASSUME NEW t \in Thread, Lock(t) PROVE Order'
  <2>1. FramesOf(Unwritten)' = FramesOf(Unwritten)
    BY <1>3 DEF Lock, FramesOf, Unwritten
  <2> QED
    BY <1>3, <2>1, OrderElsewhere DEF Lock, Order, Hands, ClientPipe
<1>4. ASSUME NEW t \in Thread, Spawn(t) PROVE Order'
  <2>1. PICK c : c = spawning[t]
    OBVIOUS
  <2>2. c # None /\ Begin(c, "sin", c) /\ UNCHANGED <<pipe, halfway, queue, ended, sent, got>>
    BY <1>4, <2>1 DEF Spawn, CallThread
  <2>3. c \in CallFrame /\ c \in Thread /\ c # "pump" /\ <<c>> \in Seq(Carries("sin"))
    BY <2>1, <2>2, ThreadAssumption DEF Inv, Types, ThreadTypes, Thread, Carries
  <2>4. To("sin", <<c>>) \in Seq(Hand(c))
    BY <2>3, OtherParcels DEF Pipe
  <2>5. out' = [out EXCEPT ![c] = To("sin", <<c>>)]
    BY <2>2 DEF Begin
  <2> QED
    BY <1>1, <2>2, <2>3, <2>4, <2>5, OrderBegin
<1>5. ASSUME NEW w \in Worker, Work(w) PROVE Order'
  <2>1. PICK f : f = Head(queue)
    OBVIOUS
  <2>2. /\ queue # <<>> /\ queue' = Tail(queue)
        /\ out' = [out EXCEPT ![w] = To("cout", <<f>>)]
        /\ UNCHANGED <<pipe, halfway, ended, sent, got>>
    BY <1>5, <2>1 DEF Work
  <2>3. f \in Navigation /\ Tail(queue) \in Seq(Navigation)
    BY <1>1, <2>1, <2>2
  <2>4. w \in Thread /\ w # "pump"
    BY ThreadAssumption DEF Thread
  <2>5. To("cout", <<f>>) \in Seq(Hand(w))
    <3>1. f \in Carries("cout") /\ "cout" \in Pipe
      BY <2>3 DEF Navigation, Carries, Pipe
    <3>2. To("cout", <<f>>) = <<<<"cout", f>>>> /\ <<"cout", f>> \in Parcel
      BY <3>1, OneParcel, CarriesFrames DEF Parcel
    <3>3. <<"cout", f>> \in Hand(w)
      BY <2>3, <2>4, <3>2 DEF Hand
    <3>4. <<<<"cout", f>>>> \in Seq(Hand(w))
      BY <3>3
    <3> QED
      BY <3>2, <3>4, Zenon
  <2> QED
    BY <2>2, <2>3, <2>4, <2>5, OrderBegin
<1>6. ASSUME NEW f \in ClientFrame, ClientWrites(f) PROVE Order'
  <2>1. "client" \in Thread /\ "cin" \in Pipe /\ <<f>> \in Seq(Carries("cin"))
    BY DEF Thread, Pipe, Carries
  <2>2. To("cin", <<f>>) \in Seq(Hand("client"))
    BY <2>1, OtherParcels
  <2>3. /\ out' = [out EXCEPT !["client"] = To("cin", <<f>>)]
        /\ UNCHANGED <<pipe, halfway, queue, ended, sent, got>>
    BY <1>6 DEF ClientWrites, Begin
  <2> QED
    BY <1>1, <2>1, <2>2, <2>3, OrderBegin
<1>7. ASSUME NEW f \in Unprompted, ServerWrites(f) PROVE Order'
  <2>1. "server" \in Thread /\ "sout" \in Pipe /\ <<f>> \in Seq(Carries("sout"))
    BY DEF Thread, Pipe, Carries, Unprompted
  <2>2. To("sout", <<f>>) \in Seq(Hand("server"))
    BY <2>1, OtherParcels
  <2>3. /\ out' = [out EXCEPT !["server"] = To("sout", <<f>>)]
        /\ UNCHANGED <<pipe, halfway, queue, ended, sent, got>>
    BY <1>7 DEF ServerWrites, Begin
  <2> QED
    BY <1>1, <2>1, <2>2, <2>3, OrderBegin
<1>8. CASE ServerExits \/ ProxyExits
  <2>1. UNCHANGED <<pipe, out, halfway, queue, ended, sent, got>>
    BY <1>8 DEF ServerExits, ProxyExits
  <2>2. FramesOf(Unwritten)' = FramesOf(Unwritten)
    BY <2>1 DEF FramesOf, Unwritten
  <2> QED
    BY <2>1, <2>2, OrderElsewhere DEF Order, Hands, ClientPipe
<1>9. ASSUME NEW t \in Thread, Write(t) PROVE Order'
  BY <1>3, <1>9, OrderHeader, OrderBody, OrderBroken, OrderFail DEF Write
<1>10. ASSUME NEW p \in Pipe, Read(p) PROVE Order'
  BY <1>10, OrderReadHeader, OrderReadBody DEF Read
<1>11. ASSUME NEW w \in Worker, Panic(w) PROVE Order'
  <2>1. /\ queue # <<>> /\ queue' = Tail(queue) /\ ended' = ended \cup {w}
        /\ UNCHANGED <<pipe, out, halfway, sent, got>>
    BY <1>11 DEF Panic
  <2>2. Tail(queue) \in Seq(Navigation)
    BY <1>1, <2>1
  <2>3. "cout" \notin ended'
    BY <2>1, ThreadAssumption DEF Order, ClientPipe, Pipe
  <2>4. FramesOf(Unwritten)' = FramesOf(Unwritten)
    BY <2>1 DEF FramesOf, Unwritten
  <2> QED
    BY <2>1, <2>2, <2>3, <2>4, OrderElsewhere DEF Order, Hands, ClientPipe
<1> QED
  BY <1>2, <1>4, <1>5, <1>6, <1>7, <1>8, <1>9, <1>10, <1>11 DEF Next

-----------------------------------------------------------------------------
\* Types and lengths, whatever the capacity of the pipes: a writer that finds
\* no room waits.
THEOREM WireTypeCorrect == Spec => []TypeOK
<1>1. Inv => TypeOK
  <2> SUFFICES ASSUME Inv PROVE TypeOK
    OBVIOUS
  <2>1. Parcel \subseteq Pipe \X Frame
    BY DEF Parcel
  <2>2. out \in [Thread -> Seq(Pipe \X Frame)]
    BY <2>1 DEF Inv, Types, ThreadTypes
  <2> QED
    BY <2>2 DEF Inv, Types, PipeTypes, ThreadTypes, LockTypes, TypeOK
<1> QED
  BY <1>1, InvInit, InvNext, PTL DEF Spec

\* The mutex of a pipe (client_out, server_in) is held by one thread at a time,
\* and only between the header and the body of its frame or around them.
THEOREM OneWriterAtATime == Spec => []OneWriter
  BY InvInit, InvNext, PTL DEF Spec, Inv

\* Frames of several threads, written in pieces under the mutexes, arrive whole
\* and in order on every pipe.
THEOREM PipesCarryFrames == Spec => WholeFrames
<1>1. Inv /\ [Next]_vars => [Channels!Next]_Channels!vars
  BY InvNext DEF AbstractStep
<1> QED
  BY <1>1, InvInit, InvNext, PTL DEF Spec, WholeFrames, Channels!Spec

\* What the pump relays itself reaches the client in the order of the server,
\* log lines expanded, and nothing of it is missing in between.
THEOREM RelayedInOrder == Spec => []RelayInOrder
<1>1. Inv /\ Order => RelayInOrder
  <2> SUFFICES ASSUME Inv, Order PROVE RelayInOrder
    OBVIOUS
  <2>1. PICK X, g, s : X = Carries("cout") /\ g = got["cout"] /\ s = sent["cout"]
    OBVIOUS
  <2>2. g \in Seq(X) /\ s \in Seq(X) /\ Begins(g, s)
    BY <2>1 DEF Order, ReadsBegin, Pipe
  <2>3. PICK u, r : u = FramesOf(Unwritten) /\ r = RelayedFrames(got["sout"])
    OBVIOUS
  <2>4. DirectFrames(s) \o u = r
    BY <2>1, <2>3 DEF Order, InOrder
  <2>5. u \in Seq(X)
    <3>1. out["pump"] \in Seq(Hand("pump")) /\ Hand("pump") \subseteq Parcel
      BY PumpThere, HandParcel DEF Order, Hands
    <3>2. Unwritten \in Seq(Hand("pump"))
      <4>1. "pump" \in halfway => out["pump"] # <<>>
        BY DEF Inv, OneWriter, HalfwayHolds
      <4> QED
        BY <3>1, <4>1 DEF Unwritten
    <3>3. DOMAIN Unwritten = 1..Len(Unwritten) /\ Len(Unwritten) \in Nat
      BY <3>2
    <3>4. \A i \in 1..Len(Unwritten) : Unwritten[i][2] \in X
      BY <2>1, <3>2 DEF Hand, Parcel
    <3>5. u = [i \in 1..Len(Unwritten) |-> Unwritten[i][2]]
      BY <2>3, <3>3 DEF FramesOf
    <3> QED
      BY <3>3, <3>4, <3>5
  <2>6. PICK a, b : a = DirectFrames(g) /\ b = DirectFrames(s)
    OBVIOUS
  <2>7. a \in Seq(X) /\ b \in Seq(X)
    BY <2>2, <2>6, DirectFramesTypes
  <2>8. Begins(a, b)
    BY <2>2, <2>6, DirectBegins
  <2>9. Begins(a, r) /\ r \in Seq(X)
    <3>1. r = b \o u
      BY <2>4, <2>6
    <3>2. r \in Seq(X)
      BY <2>5, <2>7, <3>1
    <3> QED
      BY <2>5, <2>7, <2>8, <3>1, <3>2, BeginsConcat
  <2>10. IsPrefix(a, r)
    BY <2>7, <2>9, BeginsIsPrefix
  <2> QED
    BY <2>1, <2>3, <2>6, <2>10 DEF RelayInOrder
<1>2. Init => Inv /\ Order
  BY InvInit, OrderInit
<1>3. (Inv /\ Order) /\ [Next]_vars => (Inv /\ Order)'
  BY InvNext, OrderNext
<1> QED
  BY <1>1, <1>2, <1>3, PTL DEF Spec

\* On every pipe what was read is a beginning of what was written.
THEOREM ReadIsPrefix == Spec => [](\A p \in Pipe : IsPrefix(got[p], sent[p]))
<1>1. Order => \A p \in Pipe : IsPrefix(got[p], sent[p])
  BY BeginsIsPrefix DEF Order, ReadsBegin
<1>2. Init => Inv /\ Order
  BY InvInit, OrderInit
<1>3. (Inv /\ Order) /\ [Next]_vars => (Inv /\ Order)'
  BY InvNext, OrderNext
<1> QED
  BY <1>1, <1>2, <1>3, PTL DEF Spec
=============================================================================
