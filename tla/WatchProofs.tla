----------------------------- MODULE WatchProofs -----------------------------
(***************************************************************************)
(* A watch gives a true answer, whatever changes, however many errors the   *)
(* watcher raises and whenever the caller cancels.                          *)
(***************************************************************************)
EXTENDS Watch, SequenceTheorems, TLAPS

ErrorName == {"SourceNotFound", "PermissionDenied", "Io"}

(* The oneshot holds the first error and nothing before it; set-up is the   *)
(* only other way to an error, and a path never there stops it at once.     *)
OneshotInv ==
  /\ errors \in Seq(ErrorName) /\ sender \in BOOLEAN
  /\ sender => fatal = {} /\ errors = <<>>
  /\ ~sender => errors # <<>> /\ fatal = {Head(errors)}

SetUpInv ==
  /\ task # "done" => ends = {}
  /\ path = "gone" => task \in {"look", "done"}
  /\ task = "done" /\ answer # "ok" /\ ends = {} => ~sender

WatchInv == OneshotInv /\ SetUpInv /\ AnswerTrue

LEMMA ClassifiedIsError == \A e : Classified(e) \in ErrorName
  BY DEF Classified, ErrorName

(* A later error does not become the first one.                             *)
LEMMA HeadStays ==
  ASSUME NEW s \in Seq(ErrorName), s # <<>>, NEW x \in ErrorName
  PROVE  /\ Append(s, x) \in Seq(ErrorName)
         /\ Append(s, x) # <<>>
         /\ Head(Append(s, x)) = Head(s)
<1>1. Len(s) \in Nat \ {0}
  BY EmptySeq
<1>2. Append(s, x)[1] = s[1]
  BY <1>1, AppendProperties
<1> QED
  BY <1>1, <1>2, AppendProperties

LEMMA HeadOfFirst ==
  ASSUME NEW x \in ErrorName
  PROVE  /\ Append(<<>>, x) \in Seq(ErrorName)
         /\ Append(<<>>, x) # <<>>
         /\ Head(Append(<<>>, x)) = x
  OBVIOUS

(* watch() answers Ok only when it was cancelled; an error is the one       *)
(* set-up ended with or the first the watcher raised.                       *)
THEOREM AnswerIsTrue == Spec => []AnswerTrue
<1>1. Init => WatchInv
  BY DEF Init, WatchInv, OneshotInv, SetUpInv, AnswerTrue
<1>2. WatchInv /\ [Next]_vars => WatchInv'
  <2> SUFFICES ASSUME WatchInv, [Next]_vars PROVE WatchInv'
    OBVIOUS
  <2> USE DEF WatchInv
  <2>1. ASSUME NEW e, SetUpFails(e), task # "done", UNCHANGED <<caller, noticed, sender, fatal, stream, owed>>,
               path = "gone" => e = "gone"
        PROVE  WatchInv'
    <3>1. Classified(e) \in ErrorName
      BY ClassifiedIsError
    <3>2. path = "gone" => Classified(e) = "SourceNotFound"
      BY <2>1 DEF Classified
    <3> QED
      BY <2>1, <3>1, <3>2
      DEF SetUpFails, Ended, OneshotInv, SetUpInv, AnswerTrue, caller, owed, ErrorName
  <2>2. CASE LookAtPath
    <3>1. CASE PathFails
      BY <2>1, <2>2, <3>1 DEF LookAtPath
    <3>2. CASE ~PathFails
      BY <2>2, <3>2
      DEF LookAtPath, PathFails, OneshotInv, SetUpInv, AnswerTrue, caller, owed
    <3> QED
      BY <3>1, <3>2
  <2>3. CASE CreateWatcher
    <3>1. path # "gone"
      BY <2>3 DEF CreateWatcher, SetUpInv
    <3>2. CASE \E e \in NotifyError : SetUpFails(e)
      BY <2>1, <2>3, <3>1, <3>2 DEF CreateWatcher
    <3>3. CASE task' = "register" /\ UNCHANGED <<answer, ends>>
      BY <2>3, <3>1, <3>3 DEF CreateWatcher, OneshotInv, SetUpInv, AnswerTrue, caller, owed
    <3> QED
      BY <2>3, <3>2, <3>3 DEF CreateWatcher
  <2>4. CASE Register
    <3>1. path # "gone"
      BY <2>4 DEF Register, SetUpInv
    <3>2. CASE \E e \in NotifyError : SetUpFails(e)
      BY <2>1, <2>4, <3>1, <3>2 DEF Register
    <3>3. CASE task' = "select" /\ UNCHANGED <<answer, ends>>
      BY <2>4, <3>1, <3>3 DEF Register, OneshotInv, SetUpInv, AnswerTrue, caller, owed
    <3> QED
      BY <2>4, <3>2, <3>3 DEF Register
  <2>5. CASE SelectCancelled
    BY <2>5 DEF SelectCancelled, Ended, OneshotInv, SetUpInv, AnswerTrue, caller, owed
  <2>6. CASE SelectFatal
    <3>1. ~sender /\ fatal = {Head(errors)} /\ path # "gone" /\ ends = {}
      BY <2>6 DEF SelectFatal, OneshotInv, SetUpInv
    <3>2. (CHOOSE e \in fatal : TRUE) = Head(errors)
      BY <3>1
    <3>3. task' = "done" /\ answer' = Head(errors)
      BY <2>6, <3>1, <3>2 DEF SelectFatal, Ended
    <3>4. Head(errors) \in ErrorName
      BY <3>1, EmptySeq DEF OneshotInv
    <3> QED
      BY <2>6, <3>1, <3>3, <3>4
      DEF SelectFatal, OneshotInv, SetUpInv, AnswerTrue, caller, owed, ErrorName
  <2>7. CASE RaiseError
    <3>1. PICK e \in NotifyError :
            errors' = Append(errors, Classified(e)) /\ fatal' = Forwarded(e)
      BY <2>7 DEF RaiseError
    <3>2. Classified(e) \in ErrorName
      BY ClassifiedIsError
    <3>3. sender' = FALSE /\ UNCHANGED <<caller, task, answer, ends>>
      BY <2>7 DEF RaiseError
    <3>4. CASE sender
      <4>1. errors' = Append(<<>>, Classified(e)) /\ fatal' = {Classified(e)}
        BY <3>1, <3>4 DEF OneshotInv, Forwarded
      <4> QED
        BY <3>2, <3>3, <3>4, <4>1, HeadOfFirst
        DEF OneshotInv, SetUpInv, AnswerTrue, caller
    <3>5. CASE ~sender
      <4>1. fatal' = fatal
        BY <3>1, <3>5 DEF Forwarded
      <4>2. errors' \in Seq(ErrorName) /\ errors' # <<>> /\ Head(errors') = Head(errors)
        BY <3>1, <3>2, <3>5, HeadStays DEF OneshotInv
      <4> QED
        BY <3>3, <3>5, <4>1, <4>2 DEF OneshotInv, SetUpInv, AnswerTrue, caller
    <3> QED
      BY <3>4, <3>5 DEF OneshotInv
  <2>8. CASE Deliver \/ CloseWatcher \/ Change \/ ReadEvent \/ DropHandle \/ Poll \/ UNCHANGED vars
    BY <2>8 DEF Deliver, CloseWatcher, Change, ReadEvent, DropHandle, Poll, vars,
                OneshotInv, SetUpInv, AnswerTrue, caller, owed
  <2>9. CASE LosePath \/ Cancel
    BY <2>9 DEF LosePath, Cancel, watcher, OneshotInv, SetUpInv, AnswerTrue, owed
  <2> QED
    BY <2>2, <2>3, <2>4, <2>5, <2>6, <2>7, <2>8, <2>9 DEF Next, WatchTask, Backend
<1>3. WatchInv => AnswerTrue
  BY DEF WatchInv
<1> QED
  BY <1>1, <1>2, <1>3, PTL DEF Spec

-----------------------------------------------------------------------------
(* The caller's events: those the callback still has to hand over, the ones *)
(* in the stream and the ones read.                                         *)
Event == {"Created", "Modified", "Removed", "Other"}
EventsOf(s) == [i \in DOMAIN s |-> EventKind(s[i].what)]
ExpectedOf(s) == [i \in DOMAIN s |-> EventKind(s[i])]

(* A suffix, place by place from the end.                                   *)
Ends(s, t) == Len(s) <= Len(t) /\ \A k \in 0 .. Len(s) - 1 : s[Len(s) - k] = t[Len(t) - k]

(* Nothing is owed before set-up is over, and the watcher runs when it is.  *)
EventsInv ==
  /\ noticed \in Seq(Changes) /\ made \in Seq(NotifyKind)
  /\ stream \in Seq(Event) /\ read \in Seq(Event)
  /\ task \in {"look", "create", "register"} => made = <<>>
  /\ task \in {"look", "create"} => backend = "none"
  /\ task \in {"register", "select"} => backend = "running"
  /\ task \in {"look", "create", "register", "select", "done"}
  /\ held /\ task # "done" => Ends(ExpectedOf(made), Arriving)

LEMMA EventKindIsEvent == \A what : EventKind(what) \in Event
  BY DEF EventKind, Event

LEMMA ExpectedIs == Expected = ExpectedOf(made)
  BY DEF Expected, ExpectedOf, EventKind

LEMMA ArrivingIs == Arriving = read \o stream \o EventsOf(noticed)
  BY DEF Arriving, EventsOf

(* The library's definition of a suffix is by reversal.                     *)
LEMMA EndsIsSuffix ==
  ASSUME NEW s \in Seq(Event), NEW t \in Seq(Event), Ends(s, t)
  PROVE  IsSuffix(s, t)
<1> DEFINE r == Reverse(s)  q == Reverse(t)
<1>1. Len(s) \in Nat /\ Len(t) \in Nat /\ Len(s) <= Len(t)
  BY DEF Ends
<1>2. /\ r \in Seq(Event) /\ Len(r) = Len(s)
      /\ \A i \in 1 .. Len(s) : r[i] = s[(Len(s) - i) + 1]
  <2>1. \A i \in 1 .. Len(s) : (Len(s) - i) + 1 \in 1 .. Len(s)
    BY <1>1
  <2>2. \A i \in 1 .. Len(s) : s[(Len(s) - i) + 1] \in Event
    BY <2>1
  <2>3. r \in [1 .. Len(s) -> Event]
    BY <2>2 DEF Reverse
  <2> QED
    BY <1>1, <2>3 DEF Reverse
<1>3. /\ q \in Seq(Event) /\ Len(q) = Len(t)
      /\ \A i \in 1 .. Len(t) : q[i] = t[(Len(t) - i) + 1]
  <2>1. \A i \in 1 .. Len(t) : (Len(t) - i) + 1 \in 1 .. Len(t)
    BY <1>1
  <2>2. \A i \in 1 .. Len(t) : t[(Len(t) - i) + 1] \in Event
    BY <2>1
  <2>3. q \in [1 .. Len(t) -> Event]
    BY <2>2 DEF Reverse
  <2> QED
    BY <1>1, <2>3 DEF Reverse
<1> HIDE DEF r, q
<1>4. \A i \in 1 .. Len(s) : r[i] = q[i]
  <2> TAKE i \in 1 .. Len(s)
  <2>1. i - 1 \in 0 .. Len(s) - 1 /\ i \in 1 .. Len(t)
    BY <1>1
  <2>2. s[Len(s) - (i - 1)] = t[Len(t) - (i - 1)]
    BY <2>1 DEF Ends
  <2>3. Len(s) - (i - 1) = (Len(s) - i) + 1 /\ Len(t) - (i - 1) = (Len(t) - i) + 1
    BY <1>1
  <2> QED
    BY <1>2, <1>3, <2>1, <2>2, <2>3
<1>5. SubSeq(r, 1, Len(r)) = SubSeq(q, 1, Len(r))
  BY <1>1, <1>2, <1>3, <1>4
<1>6. IsPrefix(r, q)
  BY <1>1, <1>2, <1>3, <1>5 DEF IsPrefix
<1> QED
  BY <1>6 DEF IsSuffix, r, q

(* One more at the end of both, or one more in front of the longer.         *)
LEMMA EndsAppend ==
  ASSUME NEW s \in Seq(Event), NEW t \in Seq(Event), NEW x \in Event, Ends(s, t)
  PROVE  Ends(Append(s, x), Append(t, x))
<1>1. /\ Len(s) \in Nat /\ Len(t) \in Nat
      /\ Len(Append(s, x)) = Len(s) + 1 /\ Len(Append(t, x)) = Len(t) + 1
  BY AppendProperties
<1>2. ASSUME NEW k \in 0 .. Len(s)
      PROVE  Append(s, x)[Len(s) + 1 - k] = Append(t, x)[Len(t) + 1 - k]
  <2>1. CASE k = 0
    BY <1>1, <2>1, AppendProperties
  <2>2. CASE k # 0
    <3>1. k - 1 \in 0 .. Len(s) - 1 /\ Len(s) <= Len(t)
      BY <1>1, <2>2 DEF Ends
    <3>2. s[Len(s) - (k - 1)] = t[Len(t) - (k - 1)]
      BY <3>1 DEF Ends
    <3>3. /\ Len(s) - (k - 1) = Len(s) + 1 - k /\ Len(t) - (k - 1) = Len(t) + 1 - k
          /\ Len(s) + 1 - k \in 1 .. Len(s) /\ Len(t) + 1 - k \in 1 .. Len(t)
      BY <1>1, <3>1
    <3>4. /\ Append(s, x)[Len(s) + 1 - k] = s[Len(s) + 1 - k]
          /\ Append(t, x)[Len(t) + 1 - k] = t[Len(t) + 1 - k]
      BY <3>3, AppendProperties
    <3> QED
      BY <3>2, <3>3, <3>4
  <2> QED
    BY <2>1, <2>2
<1> QED
  BY <1>1, <1>2 DEF Ends

LEMMA EventsOfAppend ==
  ASSUME NEW s \in Seq(Changes), NEW c \in Changes
  PROVE  /\ EventsOf(s) \in Seq(Event)
         /\ EventsOf(Append(s, c)) = Append(EventsOf(s), EventKind(c.what))
<1>1. EventsOf(s) \in Seq(Event) /\ Len(EventsOf(s)) = Len(s)
  BY EventKindIsEvent DEF EventsOf
<1>2. EventsOf(Append(s, c)) \in Seq(Event) /\ Len(EventsOf(Append(s, c))) = Len(s) + 1
  BY EventKindIsEvent, AppendProperties DEF EventsOf
<1>3. EventKind(c.what) \in Event
  BY EventKindIsEvent
<1>4. \A i \in 1 .. Len(s) + 1 :
        EventsOf(Append(s, c))[i] = Append(EventsOf(s), EventKind(c.what))[i]
  BY <1>1, <1>3, AppendProperties DEF EventsOf
<1> QED
  BY <1>1, <1>2, <1>3, <1>4, AppendProperties, SeqEqual

LEMMA ExpectedOfAppend ==
  ASSUME NEW s \in Seq(NotifyKind), NEW w \in NotifyKind
  PROVE  /\ ExpectedOf(s) \in Seq(Event)
         /\ ExpectedOf(Append(s, w)) = Append(ExpectedOf(s), EventKind(w))
<1>1. ExpectedOf(s) \in Seq(Event) /\ Len(ExpectedOf(s)) = Len(s)
  BY EventKindIsEvent DEF ExpectedOf
<1>2. ExpectedOf(Append(s, w)) \in Seq(Event) /\ Len(ExpectedOf(Append(s, w))) = Len(s) + 1
  BY EventKindIsEvent, AppendProperties DEF ExpectedOf
<1>3. EventKind(w) \in Event
  BY EventKindIsEvent
<1>4. \A i \in 1 .. Len(s) + 1 :
        ExpectedOf(Append(s, w))[i] = Append(ExpectedOf(s), EventKind(w))[i]
  BY <1>1, <1>3, AppendProperties DEF ExpectedOf
<1> QED
  BY <1>1, <1>2, <1>3, <1>4, AppendProperties, SeqEqual

LEMMA EventsOfHead ==
  ASSUME NEW s \in Seq(Changes), s # <<>>
  PROVE  EventsOf(s) = <<EventKind(Head(s).what)>> \o EventsOf(Tail(s))
<1>1. /\ Tail(s) \in Seq(Changes) /\ Len(Tail(s)) = Len(s) - 1 /\ Len(s) \in Nat /\ Len(s) > 0
      /\ \A i \in 1 .. Len(Tail(s)) : Tail(s)[i] = s[i + 1]
      /\ Head(s) = s[1]
  BY HeadTailProperties
<1>2. /\ EventsOf(s) \in Seq(Event) /\ Len(EventsOf(s)) = Len(s)
      /\ \A i \in 1 .. Len(s) : EventsOf(s)[i] = EventKind(s[i].what)
  BY EventKindIsEvent DEF EventsOf
<1>3. /\ EventsOf(Tail(s)) \in Seq(Event) /\ Len(EventsOf(Tail(s))) = Len(s) - 1
      /\ \A i \in 1 .. Len(s) - 1 : EventsOf(Tail(s))[i] = EventKind(s[i + 1].what)
  BY <1>1, EventKindIsEvent DEF EventsOf
<1>4. <<EventKind(Head(s).what)>> \in Seq(Event)
  BY EventKindIsEvent
<1>5. /\ <<EventKind(Head(s).what)>> \o EventsOf(Tail(s)) \in Seq(Event)
      /\ Len(<<EventKind(Head(s).what)>> \o EventsOf(Tail(s))) = Len(s)
      /\ \A i \in 1 .. Len(s) : (<<EventKind(Head(s).what)>> \o EventsOf(Tail(s)))[i]
                                = EventKind(s[i].what)
  <2> DEFINE x == EventKind(Head(s).what)  h == <<x>>  t == EventsOf(Tail(s))
  <2>1. h \in Seq(Event) /\ Len(h) = 1 /\ h[1] = x /\ t \in Seq(Event) /\ Len(t) = Len(s) - 1
    BY <1>3, <1>4
  <2>2. \A i \in 2 .. Len(s) : t[i - 1] = EventKind(s[i].what)
    <3> TAKE i \in 2 .. Len(s)
    <3>1. i - 1 \in 1 .. Len(s) - 1 /\ (i - 1) + 1 = i
      BY <1>1
    <3> QED
      BY <1>3, <3>1
  <2>3. x = EventKind(s[1].what)
    BY <1>1
  <2> HIDE DEF h, t, x
  <2>4. /\ h \o t \in Seq(Event) /\ Len(h \o t) = Len(s)
        /\ \A i \in 1 .. Len(s) : (h \o t)[i] = IF i <= 1 THEN h[i] ELSE t[i - 1]
    <3>1. Len(h) + Len(t) = Len(s)
      BY <1>1, <2>1
    <3>2. /\ h \o t \in Seq(Event) /\ Len(h \o t) = Len(h) + Len(t)
          /\ \A i \in 1 .. Len(h) + Len(t) :
               (h \o t)[i] = IF i <= Len(h) THEN h[i] ELSE t[i - Len(h)]
      BY <2>1, ConcatProperties
    <3> QED
      BY <2>1, <3>1, <3>2
  <2>5. \A i \in 1 .. Len(s) : (h \o t)[i] = EventKind(s[i].what)
    <3> TAKE i \in 1 .. Len(s)
    <3>1. CASE i = 1
      BY <2>1, <2>3, <2>4, <3>1
    <3>2. CASE i # 1
      <4>1. i \in 2 .. Len(s) /\ ~(i <= 1)
        BY <1>1, <3>2
      <4> QED
        BY <2>2, <2>4, <4>1
    <3> QED
      BY <3>1, <3>2
  <2> QED
    BY <2>4, <2>5 DEF h, t, x
<1> QED
  BY <1>2, <1>5, SeqEqual

(* An element that goes from the head of a sequence to the end of another.  *)
LEMMA Moved ==
  ASSUME NEW s \in Seq(Event), NEW x \in Event, NEW t \in Seq(Event)
  PROVE  Append(s, x) \o t = s \o (<<x>> \o t)
<1>1. Append(s, x) = s \o <<x>> /\ <<x>> \in Seq(Event)
  BY AppendIsConcat
<1> QED
  BY <1>1, ConcatAssociative

LEMMA ArrivingType ==
  ASSUME EventsInv
  PROVE  EventsOf(noticed) \in Seq(Event) /\ Arriving \in Seq(Event) /\ ExpectedOf(made) \in Seq(Event)
<1>1. EventsOf(noticed) \in Seq(Event) /\ ExpectedOf(made) \in Seq(Event)
  <2>1. noticed \in Seq(Changes) /\ made \in Seq(NotifyKind)
    BY DEF EventsInv
  <2>2. EventsOf(noticed) \in Seq(Event)
    BY <2>1, EventKindIsEvent DEF EventsOf
  <2>3. ExpectedOf(made) \in Seq(Event)
    BY <2>1, EventKindIsEvent DEF ExpectedOf
  <2> QED
    BY <2>2, <2>3
<1>2. read \o stream \in Seq(Event)
  BY ConcatProperties DEF EventsInv
<1> QED
  BY <1>1, <1>2, ArrivingIs, ConcatProperties

(* The callback hands an event over, and the caller reads one.              *)
LEMMA DeliverKeeps == ASSUME EventsInv, Deliver, held PROVE Arriving' = Arriving
<1> DEFINE x == EventKind(Head(noticed).what)  rest == EventsOf(Tail(noticed))
<1>1. /\ noticed \in Seq(Changes) /\ noticed # <<>> /\ stream \in Seq(Event) /\ read \in Seq(Event)
      /\ stream' = Append(stream, x) /\ noticed' = Tail(noticed) /\ read' = read
  BY DEF Deliver, EventsInv, caller
<1>2. x \in Event /\ rest \in Seq(Event) /\ EventsOf(noticed) = <<x>> \o rest /\ <<x>> \in Seq(Event)
  <2>1. Tail(noticed) \in Seq(Changes)
    BY <1>1, HeadTailProperties
  <2>2. rest \in Seq(Event)
    BY <2>1, EventKindIsEvent DEF EventsOf
  <2> QED
    BY <1>1, <2>2, EventsOfHead, EventKindIsEvent
<1>3. Arriving' = read \o Append(stream, x) \o rest
  BY <1>1, ArrivingIs DEF Arriving, EventsOf
<1> HIDE DEF x, rest
<1>4. read \o Append(stream, x) = Append(read \o stream, x) /\ read \o stream \in Seq(Event)
  <2>1. Append(stream, x) = stream \o <<x>>
    BY <1>1, <1>2, AppendIsConcat
  <2>2. read \o stream \in Seq(Event)
    BY <1>1, ConcatProperties
  <2>3. Append(read \o stream, x) = (read \o stream) \o <<x>>
    BY <1>2, <2>2, AppendIsConcat
  <2>4. (read \o stream) \o <<x>> = read \o (stream \o <<x>>)
    BY <1>1, <1>2, ConcatAssociative
  <2> QED
    BY <2>1, <2>2, <2>3, <2>4
<1>5. Append(read \o stream, x) \o rest = (read \o stream) \o (<<x>> \o rest)
  BY <1>2, <1>4, Moved
<1> QED
  BY <1>2, <1>3, <1>4, <1>5, ArrivingIs

LEMMA ReadKeeps == ASSUME EventsInv, ReadEvent PROVE Arriving' = Arriving
<1> DEFINE x == Head(stream)
<1>1. /\ stream \in Seq(Event) /\ stream # <<>> /\ read \in Seq(Event)
      /\ read' = Append(read, x) /\ stream' = Tail(stream) /\ noticed' = noticed
  BY DEF ReadEvent, EventsInv
<1>2. x \in Event /\ Tail(stream) \in Seq(Event) /\ stream = <<x>> \o Tail(stream)
  <2>1. x \in Event /\ Tail(stream) \in Seq(Event) /\ <<x>> \in Seq(Event)
    BY <1>1, HeadTailProperties
  <2>2. /\ Len(<<x>> \o Tail(stream)) = Len(stream) /\ <<x>> \o Tail(stream) \in Seq(Event)
        /\ \A i \in 1 .. Len(stream) : (<<x>> \o Tail(stream))[i] = stream[i]
    BY <1>1, <2>1, HeadTailProperties, ConcatProperties
  <2> QED
    BY <1>1, <2>1, <2>2, SeqEqual
<1>3. Append(read, x) \o Tail(stream) = read \o stream
  BY <1>1, <1>2, Moved
<1>4. Arriving' = Append(read, x) \o Tail(stream) \o EventsOf(noticed)
  BY <1>1 DEF Arriving, EventsOf
<1> QED
  BY <1>3, <1>4, ArrivingIs

(* A change that reaches the watcher, and the event the caller is owed.     *)
LEMMA ChangeAppends ==
  ASSUME EventsInv, NEW c \in Changes, noticed' = Append(noticed, c), UNCHANGED <<read, stream>>
  PROVE  Arriving' = Append(Arriving, EventKind(c.what))
<1> DEFINE x == EventKind(c.what)
<1>1. /\ noticed \in Seq(Changes) /\ x \in Event /\ <<x>> \in Seq(Event)
      /\ read \o stream \in Seq(Event)
  BY EventKindIsEvent, ConcatProperties DEF EventsInv
<1>2. EventsOf(noticed) \in Seq(Event) /\ EventsOf(noticed') = Append(EventsOf(noticed), x)
  BY <1>1, EventsOfAppend
<1>3. Arriving' = (read \o stream) \o EventsOf(noticed')
  BY DEF Arriving, EventsOf
<1> HIDE DEF x
<1>4. Append(EventsOf(noticed), x) = EventsOf(noticed) \o <<x>>
  BY <1>1, <1>2, AppendIsConcat
<1>5. (read \o stream) \o (EventsOf(noticed) \o <<x>>) = ((read \o stream) \o EventsOf(noticed)) \o <<x>>
  BY <1>1, <1>2, ConcatAssociative
<1>6. Append(Arriving, x) = Arriving \o <<x>>
  BY <1>1, ArrivingType, AppendIsConcat
<1> QED
  BY <1>2, <1>3, <1>4, <1>5, <1>6, ArrivingIs DEF x

(* No covered change is lost, told twice, out of order or by another kind,  *)
(* from the moment the watch is set up until its task ends.                 *)
THEOREM EventsAreTrue == Spec => []EventsTrue
<1>1. Init => EventsInv
  BY DEF Init, EventsInv, Ends, ExpectedOf
<1>2. EventsInv /\ [Next]_vars => EventsInv'
  <2> SUFFICES ASSUME EventsInv, [Next]_vars PROVE EventsInv'
    OBVIOUS
  <2>1. CASE LookAtPath \/ CreateWatcher \/ Register
    <3>1. /\ UNCHANGED <<noticed, made, stream, read, held>>
          /\ made = <<>> /\ task' \in {"create", "register", "select", "done"}
          /\ task' \in {"create"} => backend' = "none"
          /\ task' \in {"register", "select"} => backend' = "running"
      BY <2>1 DEF LookAtPath, CreateWatcher, Register, SetUpFails, Ended, caller, owed, EventsInv
    <3>2. Arriving' = Arriving
      BY <3>1 DEF Arriving
    <3>3. task # "done"
      BY <2>1 DEF LookAtPath, CreateWatcher, Register
    <3> QED
      BY <3>1, <3>2, <3>3 DEF EventsInv
  <2>2. CASE SelectCancelled \/ SelectFatal
    BY <2>2 DEF SelectCancelled, SelectFatal, Ended, caller, owed, EventsInv
  <2>3. CASE Deliver
    <3>1. /\ UNCHANGED <<made, read, held, task, backend>> /\ noticed # <<>>
          /\ noticed' = Tail(noticed)
          /\ stream' \in {stream, Append(stream, EventKind(Head(noticed).what))}
      BY <2>3 DEF Deliver, caller, owed
    <3>2. noticed' \in Seq(Changes) /\ stream' \in Seq(Event)
      <4>1. noticed' \in Seq(Changes)
        BY <3>1, HeadTailProperties DEF EventsInv
      <4>2. Append(stream, EventKind(Head(noticed).what)) \in Seq(Event) /\ stream \in Seq(Event)
        BY AppendProperties, EventKindIsEvent DEF EventsInv
      <4> QED
        BY <3>1, <4>1, <4>2
    <3>3. held => Arriving' = Arriving
      BY <2>3, DeliverKeeps
    <3> QED
      BY <3>1, <3>2, <3>3 DEF EventsInv
  <2>4. CASE ReadEvent
    <3>1. /\ UNCHANGED <<made, noticed, held, task, backend>> /\ stream # <<>>
          /\ stream' = Tail(stream) /\ read' = Append(read, Head(stream))
      BY <2>4 DEF ReadEvent, owed
    <3>2. read' \in Seq(Event) /\ stream' \in Seq(Event)
      BY <3>1, HeadTailProperties, AppendProperties DEF EventsInv
    <3>3. Arriving' = Arriving
      BY <2>4, ReadKeeps
    <3> QED
      BY <3>1, <3>2, <3>3 DEF EventsInv
  <2>5. CASE Change
    <3>1. PICK c \in Changes :
            /\ noticed' \in (IF ~Covers(c) \/ backend # "running" THEN {noticed}
                             ELSE {Append(noticed, c)} \cup (IF task = "select" THEN {} ELSE {noticed}))
            /\ made' = IF task = "select" /\ (recursive \/ ~c.nested)
                       THEN Append(made, c.what) ELSE made
      BY <2>5 DEF Change
    <3>2. UNCHANGED <<stream, read, held, task, backend>>
      BY <2>5 DEF Change, caller
    <3>3. c.what \in NotifyKind
      BY WatchAssumption
    <3>4. noticed' \in Seq(Changes) /\ made' \in Seq(NotifyKind)
      <4>1. Append(noticed, c) \in Seq(Changes) /\ Append(made, c.what) \in Seq(NotifyKind)
        BY <3>3, AppendProperties DEF EventsInv
      <4> QED
        BY <3>1, <4>1 DEF EventsInv
    <3>5. CASE task = "select" /\ Covers(c)
      <4>1. noticed' = Append(noticed, c) /\ made' = Append(made, c.what)
        BY <3>1, <3>5 DEF Covers, EventsInv
      <4>2. Arriving' = Append(Arriving, EventKind(c.what))
        BY <3>2, <4>1, ChangeAppends
      <4>3. ExpectedOf(made') = Append(ExpectedOf(made), EventKind(c.what))
        BY <3>3, <4>1, ExpectedOfAppend DEF EventsInv
      <4>4. held => Ends(ExpectedOf(made'), Arriving')
        BY <3>5, <4>2, <4>3, ArrivingType, EventKindIsEvent, EndsAppend DEF EventsInv
      <4> QED
        BY <3>2, <3>4, <3>5, <4>4 DEF EventsInv
    <3>6. CASE task = "select" /\ ~Covers(c)
      <4>1. noticed' = noticed /\ made' = made
        BY <3>1, <3>6 DEF Covers
      <4>2. Arriving' = Arriving
        BY <3>2, <4>1 DEF Arriving
      <4> QED
        BY <3>2, <3>4, <4>1, <4>2 DEF EventsInv
    <3>7. CASE task # "select"
      <4>1. made' = made
        BY <3>1, <3>7
      <4>2. made = <<>> => Ends(ExpectedOf(made'), Arriving')
        <5>1. noticed' \in Seq(Changes) /\ stream' \in Seq(Event) /\ read' \in Seq(Event)
          BY <3>2, <3>4 DEF EventsInv
        <5>2. EventsOf(noticed') \in Seq(Event)
          BY <5>1, EventKindIsEvent DEF EventsOf
        <5>3. Arriving' = read' \o stream' \o EventsOf(noticed')
          BY DEF Arriving, EventsOf
        <5>4. Len(Arriving') \in Nat
          BY <5>1, <5>2, <5>3, ConcatProperties
        <5> QED
          BY <4>1, <5>4 DEF Ends, ExpectedOf
      <4> QED
        BY <3>2, <3>4, <3>7, <4>1, <4>2 DEF EventsInv
    <3> QED
      BY <3>5, <3>6, <3>7
  <2>6. CASE RaiseError \/ LosePath \/ Cancel \/ Poll \/ UNCHANGED vars
    <3>1. UNCHANGED <<noticed, made, stream, read, held, task, backend>>
      BY <2>6 DEF RaiseError, LosePath, Cancel, Poll, vars, caller, watcher, owed
    <3>2. Arriving' = Arriving
      BY <3>1 DEF Arriving
    <3> QED
      BY <3>1, <3>2 DEF EventsInv
  <2>7. CASE CloseWatcher
    <3>1. UNCHANGED <<noticed, made, stream, read, held, task>> /\ task \notin {"register", "select"}
          /\ task \notin {"look", "create"}
      BY <2>7 DEF CloseWatcher, caller, owed, EventsInv
    <3> QED
      BY <3>1 DEF EventsInv
  <2>8. CASE DropHandle
    BY <2>8 DEF DropHandle, owed, EventsInv
  <2> QED
    BY <2>1, <2>2, <2>3, <2>4, <2>5, <2>6, <2>7, <2>8 DEF Next, WatchTask, Backend
<1>3. EventsInv => EventsTrue
  BY ArrivingType, ExpectedIs, EndsIsSuffix DEF EventsInv, EventsTrue
<1> QED
  BY <1>1, <1>2, <1>3, PTL DEF Spec
=============================================================================
