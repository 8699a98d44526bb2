----------------------------- MODULE AuthProofs -----------------------------
(***************************************************************************)
(* Invariance proofs for Auth, for every key set, buffer length, password  *)
(* set and option.  The timer lemmas come first; then type correctness;    *)
(* then, each relative to the ones before, the timers, the pipes and the   *)
(* indicator.                                                              *)
(***************************************************************************)
EXTENDS Auth, SequenceTheorems, TLAPS

TimerTable == [set : SUBSET Timers, live : [Timers -> Int]]

Tracked(t) == \A k \in Timers : t.live[k] = IF k \in t.set THEN 1 ELSE 0

-----------------------------------------------------------------------------
(* What the timer operations do to the table. *)

\* Scheduling arms timer k, leaves the other pointers alone and keeps one live
\* timer per set pointer (schedule_input_idle and its siblings).
LEMMA ScheduleTimer ==
  ASSUME NEW t \in TimerTable, NEW k \in Timers
  PROVE  /\ Schedule(t, k) \in TimerTable
         /\ Schedule(t, k).set = t.set \cup {k}
         /\ Tracked(t) => Tracked(Schedule(t, k))
<1>1. LoopRemoveTimer(t, k) \in [Timers -> Int]
  BY DEF LoopRemoveTimer, TimerTable
<1> QED
  BY <1>1 DEF Schedule, LoopRemoveTimer, TimerTable, Tracked

\* Cancelling disarms timer k and leaves the others alone (cancel_input_idle,
\* cancel_password_clear).
LEMMA CancelTimer ==
  ASSUME NEW t \in TimerTable, NEW k \in Timers
  PROVE  /\ Cancel(t, k) \in TimerTable
         /\ Cancel(t, k).set = t.set \ {k}
         /\ Tracked(t) => Tracked(Cancel(t, k))
<1>1. LoopRemoveTimer(t, k) \in [Timers -> Int]
  BY DEF LoopRemoveTimer, TimerTable
<1> QED
  BY <1>1 DEF Cancel, LoopRemoveTimer, TimerTable, Tracked

\* Running an expired timer's callback frees the timer and drops the pointer
\* (loop_poll with set_input_idle, set_auth_idle or clear_password).
LEMMA ExpireTimer ==
  ASSUME NEW t \in TimerTable, NEW k \in Timers
  PROVE  /\ Expire(t, k) \in TimerTable
         /\ Expire(t, k).set = t.set \ {k}
         /\ Tracked(t) /\ t.live[k] > 0 => Tracked(Expire(t, k))
BY DEF Expire, TimerTable, Tracked

-----------------------------------------------------------------------------
(* Type correctness *)

\* Every handler leaves well-typed redraw flags behind (render).
LEMMA DamageType ==
  ASSUME TypeOK, DamageState
  PROVE  dirty' \in BOOLEAN /\ frame' \in BOOLEAN
BY DEF TypeOK, DamageState, Render

\* UTF-8 sizes are positive and at most four (utf8_chsize).
LEMMA ChSizeBounds ==
  ASSUME NEW ch \in Chars
  PROVE  ChSize(ch) \in 1 .. 4
BY AuthAssumption DEF ChSize

\* Removing the last element of a non-empty sequence leaves a sequence whose
\* elements are the remaining ones.
LEMMA FrontFacts ==
  ASSUME NEW S, NEW s \in Seq(S), s # <<>>
  PROVE  /\ Len(s) \in Nat \ {0}
         /\ s[Len(s)] \in S
         /\ SubSeq(s, 1, Len(s) - 1) \in Seq(S)
         /\ Len(SubSeq(s, 1, Len(s) - 1)) = Len(s) - 1
         /\ \A i \in 1 .. Len(s) - 1 : SubSeq(s, 1, Len(s) - 1)[i] = s[i]
<1>1. Len(s) \in Nat \ {0} /\ \A i \in 1 .. Len(s) : s[i] \in S
  BY EmptySeq, LenProperties
<1>2. \A i \in 1 .. Len(s) - 1 : s[i] \in S
  BY <1>1
<1>3. 1 \in Int /\ Len(s) - 1 \in Int
  BY <1>1
<1> DEFINE n == Len(s) - 1
           f == SubSeq(s, 1, n)
<1>4. /\ f \in Seq(S)
      /\ Len(f) = IF 1 <= n THEN n - 1 + 1 ELSE 0
      /\ \A i \in 1 .. n - 1 + 1 : f[i] = s[1 + i - 1]
  BY <1>2, <1>3, SubSeqProperties
<1>5. n \in Nat /\ n - 1 + 1 = n
  BY <1>1
<1> HIDE DEF f, n
<1>6. Len(f) = n /\ \A i \in 1 .. n : f[i] = s[i]
  BY <1>4, <1>5
<1> QED
  BY <1>1, <1>4, <1>6 DEF f, n

\* clear_password_buffer() leaves an empty, well-typed buffer.
LEMMA ClearType ==
  ASSUME ClearPasswordBuffer
  PROVE  buffer' \in Buffers /\ len' \in Int
BY DEF ClearPasswordBuffer, Buffers

\* The common end of the editing keys keeps every type.
LEMMA ShowInputType ==
  ASSUME TypeOK, buffer' \in Buffers, len' \in Int,
         NEW input \in {"idle", "clear", "letter", "backspace", "neutral"},
         NEW t \in TimerTable, ShowInput(input, t)
  PROVE  TypeOK'
<1>1. timer' \in TimerTable
  BY ScheduleTimer DEF ShowInput, Timers
<1>2. dirty' \in BOOLEAN /\ frame' \in BOOLEAN
  BY DamageType DEF ShowInput
<1> QED
  BY <1>1, <1>2 DEF ShowInput, TypeOK, TimerTable, pipes

-----------------------------------------------------------------------------
(* The password buffer: length, contents and bound. *)

BufferOK == len = StrLen(buffer) /\ Contiguous(buffer) /\ NulFits

\* backspace() removes exactly the bytes of the last character.
LEMMA BackspaceKeeps ==
  ASSUME TypeOK, BufferOK, len # 0, Backspace
  PROVE  buffer' \in Buffers /\ len' \in Int /\ BufferOK'
<1> DEFINE n == Len(buffer)
<1>1. buffer # <<>> /\ buffer \in Seq([ch : Chars, end : Int])
  BY DEF BufferOK, StrLen, TypeOK, Buffers
<1>2. /\ n \in Nat \ {0} /\ DOMAIN buffer = 1 .. n
      /\ buffer[n] \in [ch : Chars, end : Int]
      /\ buffer' \in Buffers
      /\ Len(buffer') = n - 1 /\ DOMAIN buffer' = 1 .. n - 1
      /\ \A i \in 1 .. n - 1 : buffer'[i] = buffer[i]
  BY <1>1, FrontFacts, LenProperties DEF Backspace, Buffers
<1>3. ChSize(buffer[n].ch) \in 1 .. 4
  BY <1>2, ChSizeBounds
<1>4. /\ len = buffer[n].end
      /\ buffer[n].end = ChSize(buffer[n].ch) + IF n = 1 THEN 0 ELSE buffer[n - 1].end
  BY <1>1, <1>2 DEF BufferOK, StrLen, Contiguous
<1>5. len' = len - ChSize(buffer[n].ch)
  BY DEF Backspace
<1>6. len' \in Int /\ len' < len /\ len \in Int
  BY <1>3, <1>5 DEF TypeOK
<1>7. NulFits'
  BY <1>6, AuthAssumption DEF BufferOK, NulFits
<1>8. Contiguous(buffer')
  BY <1>2 DEF BufferOK, Contiguous
<1>9. len' = StrLen(buffer')
  <2>1. CASE n = 1
    <3>1. buffer' = <<>>
      BY <2>1, <1>2 DEF Buffers
    <3> QED
      BY <3>1, <2>1, <1>3, <1>4, <1>5 DEF StrLen
  <2>2. CASE n # 1
    <3>1. n - 1 \in 1 .. n - 1 /\ buffer' # <<>> /\ buffer'[n - 1] = buffer[n - 1]
      BY <2>2, <1>2
    <3>2. buffer[n - 1] \in [ch : Chars, end : Int]
      <4>1. n - 1 \in 1 .. Len(buffer)
        BY <2>2, <1>2
      <4> QED
        BY <4>1, <1>1, ElementOfSeq
    <3> QED
      BY <3>1, <3>2, <2>2, <1>2, <1>3, <1>4, <1>5 DEF StrLen
  <2> QED
    BY <2>1, <2>2
<1> QED
  BY <1>2, <1>6, <1>7, <1>8, <1>9 DEF BufferOK

\* append_ch() puts the new character behind the last one or drops it.
LEMMA AppendKeeps ==
  ASSUME TypeOK, BufferOK, NEW ch \in Chars, AppendCh(ch)
  PROVE  buffer' \in Buffers /\ len' \in Int /\ BufferOK'
<1>1. ChSize(ch) \in 1 .. 4
  BY ChSizeBounds
<1>2. CASE len + ChSize(ch) + 1 >= BufLen
  BY <1>2 DEF AppendCh, NoChange, BufferOK, TypeOK, NulFits
<1>3. CASE ~(len + ChSize(ch) + 1 >= BufLen)
  <2> DEFINE n == Len(buffer)
             e == [ch |-> ch, end |-> len + ChSize(ch)]
  <2>1. buffer' = Append(buffer, e) /\ len' = len + ChSize(ch)
    BY <1>3 DEF AppendCh
  <2>2. buffer \in Seq([ch : Chars, end : Int]) /\ e \in [ch : Chars, end : Int]
    BY <1>1 DEF TypeOK, Buffers
  <2>3. /\ n \in Nat
        /\ buffer' \in Buffers /\ Len(buffer') = n + 1
        /\ buffer'[n + 1] = e /\ buffer' # <<>>
        /\ \A i \in 1 .. n : buffer'[i] = buffer[i]
        /\ DOMAIN buffer = 1 .. n /\ DOMAIN buffer' = 1 .. n + 1
    BY <2>1, <2>2 DEF Buffers
  <2>4. len' = StrLen(buffer')
    BY <2>1, <2>3 DEF StrLen
  <2>5. e.end = ChSize(e.ch) + IF n + 1 = 1 THEN 0 ELSE buffer[n].end
    BY <1>1, <2>2, <2>3 DEF BufferOK, StrLen, TypeOK
  <2>6. Contiguous(buffer')
    <3> SUFFICES ASSUME NEW i \in 1 .. n + 1
                 PROVE  buffer'[i].end = ChSize(buffer'[i].ch)
                                         + IF i = 1 THEN 0 ELSE buffer'[i - 1].end
      BY <2>3 DEF Contiguous
    <3>1. CASE i = n + 1
      BY <3>1, <2>3, <2>5
    <3>2. CASE i \in 1 .. n
      BY <3>2, <2>3 DEF BufferOK, Contiguous
    <3> QED
      BY <3>1, <3>2, <2>3
  <2>7. len' \in Int /\ NulFits'
    BY <1>1, <1>3, <2>1, AuthAssumption DEF TypeOK, NulFits
  <2> QED
    BY <2>3, <2>4, <2>6, <2>7 DEF BufferOK
<1> QED
  BY <1>2, <1>3

\* clear_password_buffer() leaves a framed buffer.
LEMMA ClearKeeps ==
  ASSUME ClearPasswordBuffer
  PROVE  buffer' \in Buffers /\ len' \in Int /\ BufferOK'
<1>1. buffer' = <<>> /\ len' = 0
  BY DEF ClearPasswordBuffer
<1>2. DOMAIN <<>> = {} /\ NulFits'
  BY <1>1, AuthAssumption DEF NulFits
<1> QED
  BY <1>1, <1>2 DEF BufferOK, StrLen, Contiguous, Buffers

RequestsFramed ==
  /\ \A i \in DOMAIN request : request[i].size = StrLen(request[i].buf) + 1
  /\ backend = "checking" => checking.size = StrLen(checking.buf) + 1

FramedInv == TypeOK /\ BufferOK /\ RequestsFramed

\* A key that edits the password keeps types and framing.
LEMMA EditKeeps ==
  ASSUME FramedInv, buffer' \in Buffers, len' \in Int, BufferOK',
         NEW input \in {"clear", "letter", "backspace", "neutral"},
         NEW t \in TimerTable, ShowInput(input, t)
  PROVE  FramedInv'
<1>1. TypeOK'
  BY ShowInputType DEF FramedInv
<1>2. RequestsFramed'
  BY DEF FramedInv, RequestsFramed, ShowInput, pipes
<1> QED
  BY <1>1, <1>2 DEF FramedInv

\* The timer tables the handlers build from the current one are well typed.
LEMMA TimerTypes ==
  ASSUME TypeOK
  PROVE  /\ timer \in TimerTable
         /\ \A k \in Timers : Schedule(timer, k) \in TimerTable
         /\ \A k \in Timers : Cancel(timer, k) \in TimerTable
         /\ \A k \in Timers : Expire(timer, k) \in TimerTable
         /\ \A j, k \in Timers : Cancel(Cancel(timer, j), k) \in TimerTable
<1>1. timer \in TimerTable
  BY DEF TypeOK, TimerTable
<1> QED
  BY <1>1, ScheduleTimer, CancelTimer, ExpireTimer

\* submit_password() keeps types, and frames the request it writes.
LEMMA SubmitKeeps ==
  ASSUME FramedInv, SubmitPassword
  PROVE  FramedInv'
<1> USE DEF FramedInv
<1>1. CASE SubmitWritten
  <2> DEFINE r == [size |-> len + 1, buf |-> buffer]
  <2>1. buffer' \in Buffers /\ len' \in Int /\ BufferOK'
    BY <1>1, ClearKeeps DEF SubmitWritten
  <2>2. r \in Requests /\ request \in Seq(Requests)
    BY DEF TypeOK, Requests
  <2>3. /\ request' \in Seq(Requests)
        /\ Len(request') = Len(request) + 1
        /\ request'[Len(request) + 1] = r
        /\ \A i \in 1 .. Len(request) : request'[i] = request[i]
    BY <1>1, <2>2, AppendProperties DEF SubmitWritten
  <2>4. /\ DOMAIN request = 1 .. Len(request)
        /\ DOMAIN request' = 1 .. Len(request) + 1 /\ Len(request) \in Nat
    BY <2>2, <2>3, LenProperties
  <2>5. r.size = StrLen(r.buf) + 1
    BY DEF BufferOK
  <2>6. RequestsFramed'
    <3>1. ASSUME NEW i \in DOMAIN request'
          PROVE  request'[i].size = StrLen(request'[i].buf) + 1
      <4>1. i = Len(request) + 1 \/ i \in DOMAIN request
        BY <2>4
      <4> QED
        BY <4>1, <2>3, <2>4, <2>5 DEF RequestsFramed
    <3> QED
      BY <3>1, <1>1 DEF RequestsFramed, SubmitWritten
  <2>7. timer' \in TimerTable
    BY <1>1, TimerTypes DEF SubmitWritten, Timers
  <2>8. dirty' \in BOOLEAN /\ frame' \in BOOLEAN
    BY <1>1, DamageType DEF SubmitWritten
  <2>9. TypeOK'
    BY <1>1, <2>1, <2>3, <2>7, <2>8 DEF SubmitWritten, TypeOK, TimerTable
  <2> QED
    BY <2>1, <2>6, <2>9
<1>2. CASE SubmitFailed
  <2>1. buffer' \in Buffers /\ len' \in Int /\ BufferOK'
    BY <1>2, ClearKeeps DEF SubmitFailed
  <2>2. timer' \in TimerTable
    BY <1>2, TimerTypes, ScheduleTimer DEF SubmitFailed, Timers
  <2>3. dirty' \in BOOLEAN /\ frame' \in BOOLEAN
    BY <1>2, DamageType DEF SubmitFailed
  <2>4. TypeOK' /\ RequestsFramed'
    BY <1>2, <2>1, <2>2, <2>3
       DEF SubmitFailed, TypeOK, TimerTable, RequestsFramed, pipes
  <2> QED
    BY <2>1, <2>4
<1>3. CASE SubmitKilled
  BY <1>3 DEF SubmitKilled, TypeOK, BufferOK, NulFits, RequestsFramed, entry,
              indicator, pipes
<1> QED
  BY <1>1, <1>2, <1>3 DEF SubmitPassword

\* swaylock_handle_key() keeps types and framing, whatever the key.
LEMMA KeyKeeps ==
  ASSUME FramedInv, NEW sym \in Keysyms, HandleKey(sym)
  PROVE  FramedInv'
<1> USE DEF FramedInv
<1>1. CASE KeySubmit(sym)
  BY <1>1, SubmitKeeps DEF KeySubmit
<1>2. CASE KeyClear(sym)
  <2>1. buffer' \in Buffers /\ len' \in Int /\ BufferOK'
    BY <1>2, ClearKeeps DEF KeyClear
  <2>2. Cancel(timer, "clear_password") \in TimerTable
    BY TimerTypes DEF Timers
  <2> QED
    BY <1>2, <2>1, <2>2, EditKeeps DEF KeyClear
<1>3. CASE KeyBackspace(sym)
  <2>3. BackspaceTimers(len') \in TimerTable
    BY TimerTypes DEF BackspaceTimers, Timers
  <2>4. buffer' \in Buffers /\ len' \in Int /\ BufferOK'
    <3>1. CASE len # 0
      BY <3>1, <1>3, BackspaceKeeps DEF KeyBackspace
    <3>2. CASE len = 0
      BY <3>2, <1>3 DEF KeyBackspace, NoChange, BufferOK, NulFits, TypeOK
    <3> QED
      BY <3>1, <3>2
  <2> DEFINE input == IF len' # 0 THEN "backspace" ELSE "clear"
  <2>5. input \in {"clear", "letter", "backspace", "neutral"}
    OBVIOUS
  <2>6. ShowInput(input, BackspaceTimers(len'))
    BY <1>3 DEF KeyBackspace
  <2> HIDE DEF input
  <2> QED
    BY <2>3, <2>4, <2>5, <2>6, EditKeeps
<1>4. CASE KeyNeutral(sym)
  <2>1. buffer' \in Buffers /\ len' \in Int /\ BufferOK'
    BY <1>4 DEF KeyNeutral, NoChange, BufferOK, NulFits, TypeOK
  <2>2. Schedule(timer, "clear_password") \in TimerTable
    BY TimerTypes DEF Timers
  <2> QED
    BY <1>4, <2>1, <2>2, EditKeeps DEF KeyNeutral
<1>5. ASSUME NEW ch \in Chars, KeyLetter(sym, ch)
      PROVE  FramedInv'
  <2>1. buffer' \in Buffers /\ len' \in Int /\ BufferOK'
    BY <1>5, AppendKeeps DEF KeyLetter
  <2>2. Schedule(timer, "clear_password") \in TimerTable
    BY TimerTypes DEF Timers
  <2> QED
    BY <1>5, <2>1, <2>2, EditKeeps DEF KeyLetter
<1> QED
  BY <1>1, <1>2, <1>3, <1>4, <1>5 DEF HandleKey

\* The password buffer is framed in every reachable state.
THEOREM FramedInvariant == Spec => []FramedInv
<1>1. Init => FramedInv
  <2> SUFFICES ASSUME Init PROVE FramedInv
    OBVIOUS
  <2>1. BufferOK
    BY AuthAssumption DEF Init, BufferOK, StrLen, Contiguous, NulFits
  <2>2. RequestsFramed
    BY DEF Init, RequestsFramed
  <2>3. NoRequest \in Requests /\ 0 \in 0 .. MaxShown + 1
    BY AuthAssumption DEF NoRequest, Requests, Buffers
  <2>4. TypeOK
    <3>1. timer \in [set : SUBSET Timers, live : [Timers -> Int]]
      BY DEF Init
    <3>2. buffer \in Buffers /\ request \in Seq(Requests) /\ reply \in Seq(BOOLEAN)
      BY DEF Init, Buffers
    <3>3. /\ checking \in Requests /\ failedAttempts \in 0 .. MaxShown + 1
          /\ len \in Int
      BY <2>3 DEF Init
    <3>4. /\ control \in BOOLEAN /\ capsLock \in BOOLEAN /\ dirty \in BOOLEAN
          /\ frame \in BOOLEAN /\ accepted \in BOOLEAN
          /\ run = "running" /\ sigpipe \in {"default", "ignored"}
          /\ authState = "idle" /\ inputState = "idle" /\ backend = "reading"
      BY DEF Init
    <3> QED
      BY <3>1, <3>2, <3>3, <3>4 DEF TypeOK
  <2> QED
    BY <2>1, <2>2, <2>4 DEF FramedInv
<1>2. FramedInv /\ [Next]_vars => FramedInv'
  <2> SUFFICES ASSUME FramedInv, [Next]_vars PROVE FramedInv'
    OBVIOUS
  <2> USE DEF FramedInv
  <2>1. ASSUME NEW sym \in Keysyms, HandleKey(sym) PROVE FramedInv'
    BY <2>1, KeyKeeps
  <2>2. ASSUME NEW ctrl \in BOOLEAN, NEW caps \in BOOLEAN, Modifiers(ctrl, caps)
        PROVE  FramedInv'
    <3>1. dirty' \in BOOLEAN /\ frame' \in BOOLEAN
      BY <2>2, DamageType DEF Modifiers, TypeOK, indicator
    <3> QED
      BY <2>2, <3>1 DEF Modifiers, TypeOK, BufferOK, NulFits, RequestsFramed, pipes
  <2>3. CASE SetInputIdle
    <3>1. dirty' \in BOOLEAN /\ frame' \in BOOLEAN
      BY <2>3, DamageType DEF SetInputIdle
    <3>2. timer' \in TimerTable
      BY <2>3, TimerTypes DEF SetInputIdle, Timers
    <3> QED
      BY <2>3, <3>1, <3>2 DEF SetInputIdle, TypeOK, TimerTable, BufferOK, NulFits,
                              RequestsFramed, pipes, entry
  <2>4. CASE SetAuthIdle
    <3>1. dirty' \in BOOLEAN /\ frame' \in BOOLEAN
      BY <2>4, DamageType DEF SetAuthIdle
    <3>2. timer' \in TimerTable
      BY <2>4, TimerTypes DEF SetAuthIdle, Timers
    <3> QED
      BY <2>4, <3>1, <3>2 DEF SetAuthIdle, TypeOK, TimerTable, BufferOK, NulFits,
                              RequestsFramed, pipes, entry
  <2>5. CASE ClearPassword
    <3>1. buffer' \in Buffers /\ len' \in Int /\ BufferOK'
      BY <2>5, ClearKeeps DEF ClearPassword
    <3>2. Expire(timer, "clear_password") \in TimerTable
      BY TimerTypes DEF Timers
    <3> QED
      BY <2>5, <3>1, <3>2, EditKeeps DEF ClearPassword
  <2>6. CASE FrameDone
    BY <2>6 DEF FrameDone, Render, TypeOK, BufferOK, NulFits, RequestsFramed, pipes,
                entry
  <2>7. CASE BackendRead
    <3>1. request \in Seq(Requests) /\ request # <<>>
      BY <2>7 DEF BackendRead, TypeOK
    <3>2. /\ checking' \in Requests /\ request' \in Seq(Requests)
          /\ Len(request) \in Nat \ {0} /\ DOMAIN request = 1 .. Len(request)
          /\ Len(request') = Len(request) - 1
          /\ DOMAIN request' = 1 .. Len(request')
          /\ \A i \in 1 .. Len(request') : request'[i] = request[i + 1]
      BY <2>7, <3>1, HeadTailProperties, LenProperties, EmptySeq DEF BackendRead
    <3>3. checking' = request[1] /\ 1 \in DOMAIN request
      BY <2>7, <3>1, <3>2 DEF BackendRead
    <3>4. RequestsFramed'
      <4>1. ASSUME NEW i \in DOMAIN request'
            PROVE  request'[i].size = StrLen(request'[i].buf) + 1
        <5>1. i + 1 \in DOMAIN request /\ request'[i] = request[i + 1]
          BY <3>2
        <5> QED
          BY <5>1 DEF RequestsFramed
      <4>2. checking'.size = StrLen(checking'.buf) + 1
        BY <3>3 DEF RequestsFramed
      <4> QED
        BY <4>1, <4>2 DEF RequestsFramed
    <3> QED
      BY <2>7, <3>2, <3>4 DEF BackendRead, TypeOK, BufferOK, NulFits, entry, indicator
  <2>8. ASSUME NEW ok \in BOOLEAN, BackendReply(ok) PROVE FramedInv'
    <3>1. NoRequest \in Requests
      BY DEF NoRequest, Requests, Buffers
    <3>2. reply' \in Seq(BOOLEAN) /\ accepted' \in BOOLEAN
      BY <2>8, AppendProperties DEF BackendReply, TypeOK
    <3>3. backend' \in {"reading", "exited"}
      BY <2>8 DEF BackendReply, NextAfterReply
    <3> QED
      BY <2>8, <3>1, <3>2, <3>3 DEF BackendReply, TypeOK, BufferOK, NulFits,
                                    RequestsFramed, entry, indicator
  <2>9. CASE BackendExit
    <3>1. NoRequest \in Requests
      BY DEF NoRequest, Requests, Buffers
    <3> QED
      BY <2>9, <3>1 DEF BackendExit, TypeOK, BufferOK, NulFits, RequestsFramed,
                        entry, indicator
  <2>10. CASE CommIn
    <3>1. reply' \in Seq(BOOLEAN)
      BY <2>10, HeadTailProperties DEF CommIn, TypeOK
    <3>2. CASE CommInSuccess
      <4>1. /\ UNCHANGED <<sigpipe, entry, request, backend, checking, accepted>>
            /\ UNCHANGED <<authState, inputState, timer, failedAttempts, indicator>>
            /\ run' = "unlocking"
        BY <2>10, <3>2 DEF CommIn, CommInSuccess
      <4>2. TypeOK'
        BY <4>1, <3>1 DEF TypeOK, entry, indicator
      <4>3. BufferOK' /\ RequestsFramed'
        BY <4>1 DEF BufferOK, NulFits, RequestsFramed, entry
      <4> QED
        BY <4>2, <4>3
    <3>3. CASE CommInFailure
      <4>1. dirty' \in BOOLEAN /\ frame' \in BOOLEAN
        BY <3>3, DamageType DEF CommInFailure
      <4>2. timer' \in TimerTable
        BY <3>3, TimerTypes DEF CommInFailure, Timers
      <4>3. failedAttempts' \in 0 .. MaxShown + 1
        <5>1. MaxShown \in Nat /\ failedAttempts \in 0 .. MaxShown + 1
          BY AuthAssumption DEF TypeOK
        <5>2. failedAttempts' = IF failedAttempts <= MaxShown THEN failedAttempts + 1
                                                              ELSE failedAttempts
          BY <3>3 DEF CommInFailure
        <5> QED
          BY <5>1, <5>2
      <4> QED
        BY <2>10, <3>1, <3>3, <4>1, <4>2, <4>3
           DEF CommIn, CommInFailure, TypeOK, TimerTable, BufferOK, NulFits,
               RequestsFramed, entry
    <3> QED
      BY <2>10, <3>2, <3>3 DEF CommIn
  <2>11. CASE CommHup
    BY <2>11 DEF CommHup, TypeOK, BufferOK, NulFits, RequestsFramed, pipes, entry,
                 indicator
  <2>12. CASE UNCHANGED vars
    BY <2>12 DEF vars, TypeOK, BufferOK, NulFits, RequestsFramed
  <2> QED
    BY <2>1, <2>2, <2>3, <2>4, <2>5, <2>6, <2>7, <2>8, <2>9, <2>10, <2>11, <2>12
       DEF Next
<1> QED
  BY <1>1, <1>2, PTL DEF Spec

\* Every state field keeps its type, and the failure counter its bound.
THEOREM TypeCorrect == Spec => []TypeOK
BY FramedInvariant, PTL DEF FramedInv

\* password.len is the length of the string in the buffer and every request's
\* size field frames its payload (read_comm_request's assertion).
THEOREM AlwaysFramed == Spec => []Framed
<1>1. FramedInv => Framed
  BY DEF FramedInv, BufferOK, RequestsFramed, Framed
<1> QED
  BY <1>1, FramedInvariant, PTL

\* append_ch never writes past buffer_len.
THEOREM AlwaysNulFits == Spec => []NulFits
<1>1. FramedInv => NulFits
  BY DEF FramedInv, BufferOK
<1> QED
  BY <1>1, FramedInvariant, PTL

\* The buffer and the requests framed from it are sound in every reachable
\* state, for every buffer length and alphabet (append_ch, backspace,
\* write_comm_request).
THEOREM AlwaysBufferInv == Spec => []BufferInv
BY TypeCorrect, AlwaysFramed, AlwaysNulFits, PTL DEF BufferInv

-----------------------------------------------------------------------------
(* Timers: no pointer without its timer, no timer without its pointer, and *)
(* no transient state without the timer that ends it.                      *)

\* A key that edits the password arms the input timer and disturbs no other
\* timer than the clear timer it was given.
LEMMA EditTimers ==
  ASSUME TypeOK, TimerInv,
         NEW input \in {"clear", "letter", "backspace", "neutral"},
         NEW t \in TimerTable, Tracked(t), ShowInput(input, t),
         "auth_idle" \in timer.set => "auth_idle" \in t.set,
         len' # 0 => "clear_password" \in t.set
  PROVE  TimerInv'
<1>1. /\ timer'.set = t.set \cup {"input_idle"}
      /\ Tracked(timer')
  BY ScheduleTimer DEF ShowInput, Timers
<1>2. inputState' = input /\ authState' = authState
  BY DEF ShowInput
<1>3. TimersTracked'
  BY <1>1 DEF Tracked, TimersTracked
<1>4. PasswordExpires'
  BY <1>1 DEF PasswordExpires
<1>5. StatesDecay'
  BY <1>1, <1>2 DEF TimerInv, StatesDecay
<1> QED
  BY <1>3, <1>4, <1>5 DEF TimerInv

\* The same for the tables that swaylock_handle_key and clear_password build.
LEMMA ClearTimerTables ==
  ASSUME TypeOK, TimersTracked
  PROVE  /\ Tracked(timer)
         /\ LET t == Schedule(timer, "clear_password")
            IN  t \in TimerTable /\ Tracked(t) /\ t.set = timer.set \cup {"clear_password"}
         /\ LET t == Cancel(timer, "clear_password")
            IN  t \in TimerTable /\ Tracked(t) /\ t.set = timer.set \ {"clear_password"}
<1>1. timer \in TimerTable /\ Tracked(timer)
  BY DEF TypeOK, TimerTable, Tracked, TimersTracked
<1>2. "clear_password" \in Timers
  BY DEF Timers
<1> QED
  BY <1>1, <1>2, ScheduleTimer, CancelTimer

\* submit_password() stops both password timers and, on failure, arms the one
\* that ends AUTH_STATE_INVALID.
LEMMA SubmitTimers ==
  ASSUME TypeOK, TimerInv, SubmitPassword
  PROVE  TimerInv'
<1> DEFINE c == Cancel(timer, "clear_password")
           t == Cancel(c, "input_idle")
<1>1. c \in TimerTable /\ Tracked(c) /\ c.set = timer.set \ {"clear_password"}
  BY ClearTimerTables DEF TimerInv
<1>2. t \in TimerTable /\ Tracked(t) /\ t.set = timer.set \ {"clear_password", "input_idle"}
  BY <1>1, CancelTimer DEF Timers
<1> HIDE DEF c, t
<1>3. CASE SubmitWritten
  <2>1. timer' = t /\ len' = 0 /\ inputState' = "idle" /\ authState' = "validating"
    BY <1>3 DEF SubmitWritten, ClearPasswordBuffer, t, c
  <2> QED
    BY <1>2, <2>1 DEF TimerInv, TimersTracked, Tracked, PasswordExpires, StatesDecay
<1>4. CASE SubmitFailed
  <2>1. timer' = Schedule(t, "auth_idle") /\ len' = 0 /\ inputState' = "idle"
    BY <1>4 DEF SubmitFailed, ClearPasswordBuffer, t, c
  <2>2. Tracked(timer') /\ timer'.set = t.set \cup {"auth_idle"}
    BY <1>2, <2>1, ScheduleTimer DEF Timers
  <2> QED
    BY <1>2, <2>1, <2>2 DEF TimerInv, TimersTracked, Tracked, PasswordExpires,
                            StatesDecay
<1>5. CASE SubmitKilled
  BY <1>5 DEF SubmitKilled, TimerInv, TimersTracked, PasswordExpires, StatesDecay,
              entry
<1> QED
  BY <1>3, <1>4, <1>5 DEF SubmitPassword

\* Every key keeps the timers in step with the states they end.
LEMMA KeyTimers ==
  ASSUME TypeOK, TimerInv, NEW sym \in Keysyms, HandleKey(sym)
  PROVE  TimerInv'
<1> DEFINE armed == Schedule(timer, "clear_password")
           disarmed == Cancel(timer, "clear_password")
<1>1. /\ armed \in TimerTable /\ Tracked(armed)
      /\ armed.set = timer.set \cup {"clear_password"}
  BY ClearTimerTables DEF TimerInv
<1>2. /\ disarmed \in TimerTable /\ Tracked(disarmed)
      /\ disarmed.set = timer.set \ {"clear_password"}
  BY ClearTimerTables DEF TimerInv
<1>3. CASE KeySubmit(sym)
  BY <1>3, SubmitTimers DEF KeySubmit
<1>4. CASE KeyClear(sym)
  <2>1. ShowInput("clear", disarmed) /\ len' = 0
    BY <1>4 DEF KeyClear, ClearPasswordBuffer
  <2> HIDE DEF disarmed
  <2> QED
    BY <1>2, <2>1, EditTimers
<1>5. CASE KeyBackspace(sym)
  <2>1. CASE len' # 0
    <3>1. ShowInput("backspace", armed)
      BY <1>5, <2>1 DEF KeyBackspace, BackspaceTimers
    <3> HIDE DEF armed
    <3> QED
      BY <1>1, <3>1, EditTimers
  <2>2. CASE len' = 0
    <3>1. ShowInput("clear", disarmed)
      BY <1>5, <2>2 DEF KeyBackspace, BackspaceTimers
    <3> HIDE DEF disarmed
    <3> QED
      BY <1>2, <2>2, <3>1, EditTimers
  <2> QED
    BY <2>1, <2>2
<1>6. CASE KeyNeutral(sym)
  <2>1. ShowInput("neutral", armed)
    BY <1>6 DEF KeyNeutral
  <2> HIDE DEF armed
  <2> QED
    BY <1>1, <2>1, EditTimers
<1>7. ASSUME NEW ch \in Chars, KeyLetter(sym, ch) PROVE TimerInv'
  <2>1. ShowInput("letter", armed)
    BY <1>7 DEF KeyLetter
  <2> HIDE DEF armed
  <2> QED
    BY <1>1, <2>1, EditTimers
<1> QED
  BY <1>3, <1>4, <1>5, <1>6, <1>7 DEF HandleKey

\* The timer table changes only with the states the timers belong to.
THEOREM TimerInvariant == Spec => []TimerInv
<1>1. Init => TimerInv
  BY DEF Init, TimerInv, TimersTracked, PasswordExpires, StatesDecay
<1>2. TypeOK /\ TimerInv /\ [Next]_vars => TimerInv'
  <2> SUFFICES ASSUME TypeOK, TimerInv, [Next]_vars PROVE TimerInv'
    OBVIOUS
  <2>0. timer \in TimerTable /\ Tracked(timer)
    BY ClearTimerTables DEF TimerInv, TypeOK, TimerTable
  <2>1. ASSUME NEW sym \in Keysyms, HandleKey(sym) PROVE TimerInv'
    BY <2>1, KeyTimers
  <2>2. CASE SetInputIdle
    <3>1. Tracked(timer') /\ timer'.set = timer.set \ {"input_idle"}
      BY <2>0, <2>2, ExpireTimer DEF SetInputIdle, Timers
    <3>2. inputState' = "idle" /\ UNCHANGED <<len, authState>>
      BY <2>2 DEF SetInputIdle, entry
    <3> QED
      BY <3>1, <3>2 DEF TimerInv, TimersTracked, Tracked, PasswordExpires, StatesDecay
  <2>3. CASE SetAuthIdle
    <3>1. Tracked(timer') /\ timer'.set = timer.set \ {"auth_idle"}
      BY <2>0, <2>3, ExpireTimer DEF SetAuthIdle, Timers
    <3>2. authState' = "idle" /\ UNCHANGED <<len, inputState>>
      BY <2>3 DEF SetAuthIdle, entry
    <3> QED
      BY <3>1, <3>2 DEF TimerInv, TimersTracked, Tracked, PasswordExpires, StatesDecay
  <2>4. CASE ClearPassword
    <3> DEFINE t == Expire(timer, "clear_password")
    <3>1. t \in TimerTable /\ Tracked(t) /\ t.set = timer.set \ {"clear_password"}
      BY <2>0, <2>4, ExpireTimer DEF ClearPassword, Timers
    <3>2. ShowInput("clear", t) /\ len' = 0
      BY <2>4 DEF ClearPassword, ClearPasswordBuffer
    <3> HIDE DEF t
    <3> QED
      BY <3>1, <3>2, EditTimers
  <2>5. CASE CommIn
    <3>1. CASE CommInSuccess
      BY <2>5, <3>1 DEF CommIn, CommInSuccess, TimerInv, TimersTracked,
                        PasswordExpires, StatesDecay, entry
    <3>2. CASE CommInFailure
      <4>1. Tracked(timer') /\ timer'.set = timer.set \cup {"auth_idle"}
        BY <2>0, <3>2, ScheduleTimer DEF CommInFailure, Timers
      <4>2. UNCHANGED <<len, inputState>>
        BY <2>5, <3>2 DEF CommIn, CommInFailure, entry
      <4> QED
        BY <4>1, <4>2 DEF TimerInv, TimersTracked, Tracked, PasswordExpires,
                          StatesDecay
    <3> QED
      BY <2>5, <3>1, <3>2 DEF CommIn
  <2>6. CASE UNCHANGED <<timer, len, inputState, authState>>
    BY <2>6 DEF TimerInv, TimersTracked, PasswordExpires, StatesDecay
  <2>7. ASSUME NEW ctrl \in BOOLEAN, NEW caps \in BOOLEAN, Modifiers(ctrl, caps)
        PROVE  UNCHANGED <<timer, len, inputState, authState>>
    BY <2>7 DEF Modifiers
  <2>8. FrameDone \/ BackendRead \/ BackendExit \/ CommHup
        => UNCHANGED <<timer, len, inputState, authState>>
    BY DEF FrameDone, BackendRead, BackendExit, CommHup, entry
  <2>9. ASSUME NEW ok \in BOOLEAN, BackendReply(ok)
        PROVE  UNCHANGED <<timer, len, inputState, authState>>
    BY <2>9 DEF BackendReply, entry
  <2>10. UNCHANGED vars => UNCHANGED <<timer, len, inputState, authState>>
    BY DEF vars
  <2> QED
    BY <2>1, <2>2, <2>3, <2>4, <2>5, <2>6, <2>7, <2>8, <2>9, <2>10 DEF Next
<1> QED
  BY <1>1, <1>2, TypeCorrect, PTL DEF Spec

\* Each timer pointer is set exactly while the loop holds its one live timer.
THEOREM AlwaysTracked == Spec => []TimersTracked
BY TimerInvariant, PTL DEF TimerInv

\* A non-empty password is always about to be cleared.
THEOREM AlwaysExpires == Spec => []PasswordExpires
BY TimerInvariant, PTL DEF TimerInv

\* Transient input and authentication states always have their idle timer.
THEOREM AlwaysDecays == Spec => []StatesDecay
BY TimerInvariant, PTL DEF TimerInv

-----------------------------------------------------------------------------
(* The pipes: what a success reply in flight stands for. *)

RepliesEarned == \A i \in DOMAIN reply : reply[i] => accepted

PipeInv == ValidatingHasWork /\ SuccessIsLast /\ RepliesEarned /\ UnlockOnlyIfAccepted

\* While requests, replies and the subprocess stay as they are, only a new
\* "validating" or "unlocking" could break the invariant.
LEMMA PipesQuiet ==
  ASSUME PipeInv, UNCHANGED pipes,
         run' = "running" /\ authState' = "validating"
            => run = "running" /\ authState = "validating",
         run' = "unlocking" => run = "unlocking"
  PROVE  PipeInv'
BY DEF PipeInv, ValidatingHasWork, Outstanding, SuccessIsLast, RepliesEarned,
       UnlockOnlyIfAccepted, pipes

\* Unlocking and "Verifying" are always backed by the subprocess.
THEOREM PipeInvariant == Spec => []PipeInv
<1>1. Init => PipeInv
  BY DEF Init, PipeInv, ValidatingHasWork, SuccessIsLast, RepliesEarned,
         UnlockOnlyIfAccepted
<1>2. TypeOK /\ PipeInv /\ [Next]_vars => PipeInv'
  <2> SUFFICES ASSUME TypeOK, PipeInv, [Next]_vars PROVE PipeInv'
    OBVIOUS
  <2> USE DEF PipeInv
  <2>1. ASSUME NEW sym \in Keysyms, HandleKey(sym) PROVE PipeInv'
    <3>1. CASE SubmitWritten
      <4>1. request' # <<>>
        BY <3>1, AppendProperties DEF SubmitWritten, TypeOK, Requests
      <4> QED
        BY <3>1, <4>1 DEF SubmitWritten, ValidatingHasWork, Outstanding,
                          SuccessIsLast, RepliesEarned, UnlockOnlyIfAccepted
    <3>2. CASE SubmitFailed
      BY <3>2, PipesQuiet DEF SubmitFailed
    <3>3. CASE SubmitKilled
      BY <3>3, PipesQuiet DEF SubmitKilled
    <3>4. CASE KeyClear(sym)
      BY <3>4, PipesQuiet DEF KeyClear, ShowInput
    <3>5. CASE KeyBackspace(sym)
      BY <3>5, PipesQuiet DEF KeyBackspace, ShowInput
    <3>6. CASE KeyNeutral(sym)
      BY <3>6, PipesQuiet DEF KeyNeutral, ShowInput
    <3>7. ASSUME NEW ch \in Chars, KeyLetter(sym, ch) PROVE PipeInv'
      BY <3>7, PipesQuiet DEF KeyLetter, ShowInput
    <3> QED
      BY <2>1, <3>1, <3>2, <3>3, <3>4, <3>5, <3>6, <3>7
         DEF HandleKey, KeySubmit, SubmitPassword
  <2>2. ASSUME NEW ctrl \in BOOLEAN, NEW caps \in BOOLEAN, Modifiers(ctrl, caps)
        PROVE  PipeInv'
    BY <2>2, PipesQuiet DEF Modifiers
  <2>3. CASE SetInputIdle
    BY <2>3, PipesQuiet DEF SetInputIdle
  <2>4. CASE SetAuthIdle
    BY <2>4, PipesQuiet DEF SetAuthIdle
  <2>5. CASE ClearPassword
    BY <2>5, PipesQuiet DEF ClearPassword, ShowInput
  <2>6. CASE FrameDone
    BY <2>6, PipesQuiet DEF FrameDone
  <2>7. CASE BackendRead
    BY <2>7 DEF BackendRead, ValidatingHasWork, Outstanding, SuccessIsLast,
                RepliesEarned, UnlockOnlyIfAccepted
  <2>8. ASSUME NEW ok \in BOOLEAN, BackendReply(ok) PROVE PipeInv'
    <3>1. /\ reply' # <<>>
          /\ Len(reply') = Len(reply) + 1 /\ Len(reply) \in Nat
          /\ DOMAIN reply' = 1 .. Len(reply') /\ DOMAIN reply = 1 .. Len(reply)
          /\ reply'[Len(reply) + 1] = ok
          /\ \A i \in 1 .. Len(reply) : reply'[i] = reply[i]
      BY <2>8, AppendProperties, LenProperties DEF BackendReply, TypeOK
    <3>2. ASSUME NEW i \in DOMAIN reply'
          PROVE  \/ i = Len(reply') /\ reply'[i] = ok
                 \/ i \in DOMAIN reply /\ reply'[i] = reply[i]
      <4>1. i = Len(reply) + 1 \/ i \in 1 .. Len(reply)
        BY <3>1
      <4> QED
        BY <4>1, <3>1
    <3>3. SuccessIsLast'
      <4> SUFFICES ASSUME PwBackend = "pam", NEW i \in DOMAIN reply', reply'[i]
                   PROVE  i = Len(reply') /\ backend' = "exited"
        BY DEF SuccessIsLast
      <4>1. ~(i \in DOMAIN reply /\ reply[i])
        BY <2>8 DEF SuccessIsLast, BackendReply
      <4>2. i = Len(reply') /\ ok
        BY <3>2, <4>1
      <4> QED
        BY <2>8, <4>2 DEF BackendReply, NextAfterReply
    <3>4. RepliesEarned'
      BY <2>8, <3>2 DEF RepliesEarned, BackendReply
    <3>5. ValidatingHasWork' /\ UnlockOnlyIfAccepted'
      BY <2>8, <3>1 DEF ValidatingHasWork, Outstanding, UnlockOnlyIfAccepted,
                        BackendReply
    <3> QED
      BY <3>3, <3>4, <3>5
  <2>9. CASE BackendExit
    BY <2>9 DEF BackendExit, ValidatingHasWork, Outstanding, SuccessIsLast,
                RepliesEarned, UnlockOnlyIfAccepted
  <2>10. CASE CommIn
    <3>1. /\ reply # <<>> /\ reply \in Seq(BOOLEAN)
          /\ Len(reply) \in Nat \ {0} /\ DOMAIN reply = 1 .. Len(reply)
          /\ Len(reply') = Len(reply) - 1 /\ DOMAIN reply' = 1 .. Len(reply')
          /\ \A i \in 1 .. Len(reply') : reply'[i] = reply[i + 1]
      BY <2>10, HeadTailProperties, LenProperties, EmptySeq DEF CommIn, TypeOK
    <3>2. ASSUME NEW i \in DOMAIN reply'
          PROVE  /\ i + 1 \in DOMAIN reply /\ reply'[i] = reply[i + 1]
                 /\ i + 1 = Len(reply) => i = Len(reply')
      BY <3>1
    <3>3. UNCHANGED <<backend, accepted>>
      BY <2>10 DEF CommIn
    <3>4. SuccessIsLast' /\ RepliesEarned'
      BY <3>2, <3>3 DEF SuccessIsLast, RepliesEarned
    <3>5. ValidatingHasWork' /\ UnlockOnlyIfAccepted'
      <4>1. CASE CommInSuccess
        <5>1. accepted
          <6>1. Head(reply) = reply[1] /\ 1 \in DOMAIN reply
            BY <3>1
          <6>2. Head(reply)
            BY <4>1 DEF CommInSuccess
          <6> QED
            BY <6>1, <6>2, Zenon DEF RepliesEarned
        <5> QED
          BY <3>3, <4>1, <5>1 DEF CommInSuccess, ValidatingHasWork,
                                  UnlockOnlyIfAccepted
      <4>2. CASE CommInFailure
        BY <2>10, <3>3, <4>2 DEF CommIn, CommInFailure, ValidatingHasWork,
                                 UnlockOnlyIfAccepted
      <4> QED
        BY <2>10, <4>1, <4>2 DEF CommIn
    <3> QED
      BY <3>4, <3>5
  <2>11. CASE CommHup
    BY <2>11, PipesQuiet DEF CommHup
  <2>12. CASE UNCHANGED vars
    BY <2>12, PipesQuiet DEF vars, pipes
  <2> QED
    BY <2>1, <2>2, <2>3, <2>4, <2>5, <2>6, <2>7, <2>8, <2>9, <2>10, <2>11, <2>12
       DEF Next
<1> QED
  BY <1>1, <1>2, TypeCorrect, PTL DEF Spec

\* The event loop is left by comm_in only after the backend accepted a password.
THEOREM UnlockNeedsAcceptance == Spec => []UnlockOnlyIfAccepted
BY PipeInvariant, PTL DEF PipeInv

\* "Verifying" is never shown with nothing left to verify.
THEOREM AlwaysWork == Spec => []ValidatingHasWork
BY PipeInvariant, PTL DEF PipeInv

\* With PAM, no reply follows a success.
THEOREM SuccessStaysLast == Spec => []SuccessIsLast
BY PipeInvariant, PTL DEF PipeInv

-----------------------------------------------------------------------------
(* The indicator *)

\* damage_state() draws the new state at once or leaves the surface dirty
\* behind a frame callback.
LEMMA DamageShows ==
  ASSUME TypeOK, IndicatorCurrent, DamageState
  PROVE  IndicatorCurrent'
BY DEF TypeOK, IndicatorCurrent, DamageState, Render, RenderFrame

\* The indicator lags behind the state only while a redraw is pending.
THEOREM IndicatorInvariant == Spec => []IndicatorCurrent
<1>1. Init => IndicatorCurrent
  BY DEF Init, IndicatorCurrent
<1>2. TypeOK /\ IndicatorCurrent /\ [Next]_vars => IndicatorCurrent'
  <2> SUFFICES ASSUME TypeOK, IndicatorCurrent, [Next]_vars PROVE IndicatorCurrent'
    OBVIOUS
  <2>1. CASE DamageState
    BY <2>1, DamageShows
  <2>2. CASE UNCHANGED <<indicator, authState, inputState, failedAttempts, capsLock>>
    BY <2>2 DEF IndicatorCurrent, indicator
  <2>3. ASSUME NEW sym \in Keysyms, HandleKey(sym), ~DamageState
        PROVE  UNCHANGED <<indicator, authState, inputState, failedAttempts, capsLock>>
    BY <2>3 DEF HandleKey, KeySubmit, SubmitPassword, SubmitWritten, SubmitFailed,
                SubmitKilled, KeyClear, KeyBackspace, KeyNeutral, KeyLetter, ShowInput,
                entry
  <2>4. ASSUME NEW ctrl \in BOOLEAN, NEW caps \in BOOLEAN, Modifiers(ctrl, caps),
               ~DamageState
        PROVE  UNCHANGED <<indicator, authState, inputState, failedAttempts, capsLock>>
    BY <2>4 DEF Modifiers
  <2>5. CASE FrameDone
    BY <2>5 DEF FrameDone, Render, RenderFrame, IndicatorCurrent, entry
  <2>6. SetInputIdle \/ SetAuthIdle \/ ClearPassword => DamageState
    BY DEF SetInputIdle, SetAuthIdle, ClearPassword, ShowInput
  <2>7. BackendRead \/ BackendExit \/ CommHup
        => UNCHANGED <<indicator, authState, inputState, failedAttempts, capsLock>>
    BY DEF BackendRead, BackendExit, CommHup, entry
  <2>8. ASSUME NEW ok \in BOOLEAN, BackendReply(ok)
        PROVE  UNCHANGED <<indicator, authState, inputState, failedAttempts, capsLock>>
    BY <2>8 DEF BackendReply, entry
  <2>9. ASSUME CommIn, ~DamageState
        PROVE  UNCHANGED <<indicator, authState, inputState, failedAttempts, capsLock>>
    BY <2>9 DEF CommIn, CommInSuccess, CommInFailure, entry
  <2>10. UNCHANGED vars
         => UNCHANGED <<indicator, authState, inputState, failedAttempts, capsLock>>
    BY DEF vars, indicator
  <2> QED
    BY <2>1, <2>2, <2>3, <2>4, <2>5, <2>6, <2>7, <2>8, <2>9, <2>10 DEF Next
<1> QED
  BY <1>1, <1>2, TypeCorrect, PTL DEF Spec

=============================================================================
