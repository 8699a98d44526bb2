-------------------------------- MODULE Auth --------------------------------
(***************************************************************************)
(* Password entry and validation: the password buffer and its indicator    *)
(* (password.c, render.c), the pipe pair to the checking subprocess        *)
(* (comm.c), that subprocess (pam.c, shadow.c) and the reply handler       *)
(* (comm_in in main.c).                                                    *)
(*                                                                         *)
(* swaylock is single threaded: every action below is one callback of its  *)
(* event loop, except the Backend* actions, which are steps of the forked  *)
(* subprocess.  Time is abstracted: an armed timer may expire in any step. *)
(***************************************************************************)
EXTENDS Integers, Sequences

CONSTANTS
  Chars,               \* code points the keyboard can produce
  BufLen,              \* password.buffer_len, 1024 in main()
  Valid,               \* the passwords the backend may accept
  IgnoreEmpty,         \* args.ignore_empty
  ShowFailedAttempts,  \* args.show_failed_attempts
  ShowCapsLock,        \* args.show_caps_lock_text
  MaxShown,            \* largest attempt count drawn in digits, 999 in render_frame()
  PwBackend,           \* "pam" or "shadow", chosen at build time
  MaxQueue             \* bound: requests sent whose reply is not yet read (pipe capacity)

ASSUME AuthAssumption ==
  /\ Chars \subseteq Nat \ {0}
  /\ BufLen \in Nat /\ BufLen > 1
  /\ Valid \subseteq Seq(Chars)
  /\ IgnoreEmpty \in BOOLEAN
  /\ ShowFailedAttempts \in BOOLEAN
  /\ ShowCapsLock \in BOOLEAN
  /\ MaxShown \in Nat
  /\ PwBackend \in {"pam", "shadow"}
  /\ MaxQueue \in Nat \ {0}

VARIABLES
  run,             \* "running"; "unlocking" once run_display is false; "exited"; "killed"
  sigpipe,         \* SIGPIPE disposition inherited from the parent: "default" or "ignored"
  control,         \* xkb.control
  capsLock,        \* xkb.caps_lock
  buffer,          \* password.buffer up to its NUL: code points, each with the
                   \* byte offset at which its encoding ends
  len,             \* password.len, in bytes
  authState,       \* auth_state
  inputState,      \* input_state
  timer,           \* .set: timer fields not NULL; .live: un-removed loop timers of each
  failedAttempts,  \* failed_attempts, counted up to MaxShown + 1
  dirty,           \* surface->dirty
  frame,           \* surface->frame # NULL: a frame callback is outstanding
  shown,           \* the picture last committed to the indicator surface, or
                   \* Outdated if the last redraw was lost
  request,         \* comm[0]: password requests not yet read
  backend,         \* the subprocess: "reading", "checking" or "exited"
  checking,        \* the request the backend is validating, or NoRequest
  reply,           \* comm[1]: replies not yet read
  accepted         \* history: the backend has accepted a password

entry     == <<control, capsLock, buffer, len>>
indicator == <<dirty, frame, shown>>
pipes     == <<request, backend, checking, reply, accepted>>
vars == <<run, sigpipe, control, capsLock, buffer, len, authState, inputState,
          timer, failedAttempts, dirty, frame, shown, request, backend,
          checking, reply, accepted>>

Timers == {"input_idle", "auth_idle", "clear_password"}
Keysyms == {"Return", "BackSpace", "Escape", "Control_L", "m", "u", "other"}
NoRequest == [size |-> 0, buf |-> <<>>]

-----------------------------------------------------------------------------
(* UTF-8 sizes (unicode.c) and the NUL-terminated buffer. *)

ChSize(ch) == IF ch < 128 THEN 1
              ELSE IF ch < 2048 THEN 2
              ELSE IF ch < 65536 THEN 3 ELSE 4

\* strlen() of a buffer, and the characters in it
StrLen(s) == IF s = <<>> THEN 0 ELSE s[Len(s)].end

Decoded(s) == [i \in DOMAIN s |-> s[i].ch]

NoChange == UNCHANGED <<buffer, len>>

\* clear_password_buffer()
ClearPasswordBuffer == buffer' = <<>> /\ len' = 0

BackspaceOneByte == buffer' = SubSeq(buffer, 1, Len(buffer) - 1) /\ len' = len - 1

\* backspace() on a non-empty buffer: drop the last character and its bytes.
Backspace ==
  /\ buffer' = SubSeq(buffer, 1, Len(buffer) - 1)
  /\ len' = len - ChSize(buffer[Len(buffer)].ch)

\* append_ch(): a character that would not leave room for the NUL is dropped.
AppendCh(ch) ==
  IF len + ChSize(ch) + 1 >= BufLen
    THEN NoChange
    ELSE /\ len' = len + ChSize(ch)
         /\ buffer' = Append(buffer, [ch |-> ch, end |-> len + ChSize(ch)])

-----------------------------------------------------------------------------
(* Timers: a pointer in swaylock_state and the un-removed timers of the    *)
(* event loop that were added for it (loop.c).                             *)

\* loop_remove_timer(), called only on a pointer that is set.
LoopRemoveTimer(t, k) ==
  IF k \in t.set THEN [t.live EXCEPT ![k] = @ - 1] ELSE t.live

\* schedule_input_idle, schedule_auth_idle, schedule_password_clear
Schedule(t, k) ==
  [set |-> t.set \cup {k}, live |-> [LoopRemoveTimer(t, k) EXCEPT ![k] = @ + 1]]

\* cancel_input_idle, cancel_password_clear
Cancel(t, k) == [set |-> t.set \ {k}, live |-> LoopRemoveTimer(t, k)]

\* The loop runs an expired timer's callback, which drops the pointer, and
\* frees the timer.
Expire(t, k) == [set |-> t.set \ {k}, live |-> [t.live EXCEPT ![k] = @ - 1]]

-----------------------------------------------------------------------------
(* The indicator (render.c), on one configured surface that has a buffer.  *)

\* The text render_frame() chooses; the number only matters for "Attempts".
\* The indicator is enabled, hidden when idle, and shows no keyboard layout.
IndicatorText(auth, input, failed, caps) ==
  IF auth = "idle" /\ input = "idle" THEN <<"hidden", 0>>
  ELSE IF input = "clear"            THEN <<"Cleared", 0>>
  ELSE IF auth = "validating"        THEN <<"Verifying", 0>>
  ELSE IF auth = "invalid"           THEN <<"Wrong", 0>>
  ELSE IF caps /\ ShowCapsLock       THEN <<"Caps Lock", 0>>
  ELSE IF ShowFailedAttempts /\ failed > 0 THEN <<"Attempts", failed>>
  ELSE <<"blank", 0>>

\* What is drawn: the text, for a key press the highlighted segment, and the
\* colour set, which depends on Caps Lock.
Picture(auth, input, failed, caps) ==
  [text |-> IndicatorText(auth, input, failed, caps), segment |-> input,
   colors |-> caps]

\* Stands for an older picture.
Outdated == [text |-> <<"outdated", 0>>, segment |-> "idle", colors |-> FALSE]

\* render_frame(): what is shown then.  get_next_buffer() finds a buffer unless
\* the compositor has not released either of the two, which is up to it.
RenderFrame(auth, input, failed, caps) ==
  {Picture(auth, input, failed, caps), Outdated}

\* render(): draw unless clean or still waiting for the previous frame.  The
\* surface is clean afterwards whether or not render_frame() had a buffer.
Render(isDirty, frameOut, auth, input, failed, caps) ==
  IF isDirty /\ ~frameOut
    THEN /\ shown' \in RenderFrame(auth, input, failed, caps)
         /\ dirty' = FALSE
         /\ frame' = TRUE
    ELSE /\ dirty' = isDirty
         /\ frame' = frameOut
         /\ UNCHANGED shown

DamageSkippedWhenWaiting ==
  IF frame THEN UNCHANGED indicator
  ELSE Render(TRUE, frame, authState', inputState', failedAttempts', capsLock')

\* damage_state(), called last, when the handler has written its new state.
DamageState == Render(TRUE, frame, authState', inputState', failedAttempts', capsLock')

\* surface_frame_handle_done()
FrameDone ==
  /\ run = "running"
  /\ frame
  /\ Render(dirty, FALSE, authState, inputState, failedAttempts, capsLock)
  /\ UNCHANGED <<run, sigpipe, entry, authState, inputState, timer,
                 failedAttempts, pipes>>

-----------------------------------------------------------------------------
(* Key handling: swaylock_handle_key(), a guard per group of switch cases. *)

\* submit_password() up to write_comm_request(), which always clears the buffer.
\* The early returns (empty password ignored, already validating) change nothing.
CanSubmit == ~(IgnoreEmpty /\ len = 0) /\ authState # "validating"

\* The subprocess still holds the read end of the request pipe.
RequestPipeOpen == backend # "exited"

\* The request is written.  The guard on the queue is the bound MaxQueue.
SubmitWritten ==
  /\ RequestPipeOpen
  /\ Len(request) + Len(reply) + (IF backend = "checking" THEN 1 ELSE 0) < MaxQueue
  /\ request' = Append(request, [size |-> len + 1, buf |-> buffer])
  /\ ClearPasswordBuffer
  /\ inputState' = "idle"
  /\ authState' = "validating"
  /\ timer' = Cancel(Cancel(timer, "clear_password"), "input_idle")
  /\ UNCHANGED <<run, sigpipe, control, capsLock, failedAttempts, backend,
                 checking, reply, accepted>>
  /\ DamageState

\* write() fails with EPIPE: only where SIGPIPE was inherited as ignored.
SubmitFailed ==
  /\ ~RequestPipeOpen
  /\ sigpipe = "ignored"
  /\ ClearPasswordBuffer
  /\ inputState' = "idle"
  /\ authState' = "invalid"
  /\ timer' = Schedule(Cancel(Cancel(timer, "clear_password"), "input_idle"),
                       "auth_idle")
  /\ UNCHANGED <<run, sigpipe, control, capsLock, failedAttempts, pipes>>
  /\ DamageState

\* write() raises SIGPIPE, which no code of swaylock handles.
SubmitKilled ==
  /\ ~RequestPipeOpen
  /\ sigpipe = "default"
  /\ run' = "killed"
  /\ UNCHANGED <<sigpipe, entry, authState, inputState, timer,
                 failedAttempts, indicator, pipes>>

SubmitPassword == CanSubmit /\ (SubmitWritten \/ SubmitFailed \/ SubmitKilled)

\* Return, KP_Enter; m, d and j with Control
KeySubmit(sym) ==
  /\ sym = "Return" \/ (sym = "m" /\ control)
  /\ SubmitPassword

\* What every key that edits the password but does not submit it ends with.
ShowInput(input, t) ==
  /\ inputState' = input
  /\ timer' = Schedule(t, "input_idle")
  /\ UNCHANGED <<run, sigpipe, control, capsLock, authState, failedAttempts,
                 pipes>>
  /\ DamageState

\* Escape; Delete, BackSpace, c and u with Control
KeyClear(sym) ==
  /\ sym = "Escape" \/ (sym \in {"BackSpace", "u"} /\ control)
  /\ ClearPasswordBuffer
  /\ ShowInput("clear", Cancel(timer, "clear_password"))

\* The timer update of a backspace that leaves `left' bytes.
BackspaceTimersAlwaysCancelled(left) == Cancel(timer, "clear_password")

BackspaceTimers(left) ==
  IF left # 0 THEN Schedule(timer, "clear_password")
              ELSE Cancel(timer, "clear_password")

\* Delete, BackSpace without Control
KeyBackspace(sym) ==
  /\ sym = "BackSpace" /\ ~control
  /\ IF len # 0 THEN Backspace ELSE NoChange
  /\ ShowInput(IF len' # 0 THEN "backspace" ELSE "clear", BackspaceTimers(len'))

\* Caps_Lock, Shift, Control, Meta, Alt, Super
KeyNeutral(sym) ==
  /\ sym = "Control_L"
  /\ NoChange
  /\ ShowInput("neutral", Schedule(timer, "clear_password"))

\* Any other key that has a code point; without one nothing happens.
KeyLetter(sym, ch) ==
  /\ sym = "other" \/ (sym \in {"m", "u"} /\ ~control)
  /\ AppendCh(ch)
  /\ ShowInput("letter", Schedule(timer, "clear_password"))

HandleKey(sym) ==
  /\ run = "running"
  /\ \/ KeySubmit(sym)
     \/ KeyClear(sym)
     \/ KeyBackspace(sym)
     \/ KeyNeutral(sym)
     \/ \E ch \in Chars : KeyLetter(sym, ch)

\* keyboard_modifiers(): a change of Caps Lock redraws the indicator.
Modifiers(ctrl, caps) ==
  /\ run = "running"
  /\ control' = ctrl
  /\ capsLock' = caps
  /\ UNCHANGED <<run, sigpipe, buffer, len, authState, inputState, timer,
                 failedAttempts, pipes>>
  /\ IF caps # capsLock THEN DamageState ELSE UNCHANGED indicator

-----------------------------------------------------------------------------
(* Timer callbacks *)

\* set_input_idle()
SetInputIdle ==
  /\ run = "running"
  /\ timer.live["input_idle"] > 0
  /\ timer' = Expire(timer, "input_idle")
  /\ inputState' = "idle"
  /\ UNCHANGED <<run, sigpipe, entry, authState, failedAttempts, pipes>>
  /\ DamageState

\* set_auth_idle()
SetAuthIdle ==
  /\ run = "running"
  /\ timer.live["auth_idle"] > 0
  /\ timer' = Expire(timer, "auth_idle")
  /\ authState' = "idle"
  /\ UNCHANGED <<run, sigpipe, entry, inputState, failedAttempts, pipes>>
  /\ DamageState

\* clear_password(), ten seconds after the last key
ClearPassword ==
  /\ run = "running"
  /\ timer.live["clear_password"] > 0
  /\ ClearPasswordBuffer
  /\ ShowInput("clear", Expire(timer, "clear_password"))

-----------------------------------------------------------------------------
(* The subprocess: run_pw_backend_child() *)

\* read_comm_request()
BackendRead ==
  /\ backend = "reading"
  /\ request # <<>>
  /\ checking' = Head(request)
  /\ request' = Tail(request)
  /\ backend' = "checking"
  /\ UNCHANGED <<run, sigpipe, entry, authState, inputState, timer,
                 failedAttempts, indicator, reply, accepted>>

\* PAM or crypt() decides.  PAM may also refuse a valid password (expired
\* account, too many tries), never accept an invalid one.
PamAuthenticate(buf, ok) == ok => Decoded(buf) \in Valid

\* After a success the PAM backend leaves its loop and exits; the shadow
\* backend sleeps and goes on reading.
NextAfterReplyAlwaysReading(ok) == "reading"

NextAfterReply(ok) == IF ok /\ PwBackend = "pam" THEN "exited" ELSE "reading"

\* write_comm_reply()
BackendReply(ok) ==
  /\ backend = "checking"
  /\ PamAuthenticate(checking.buf, ok)
  /\ reply' = Append(reply, ok)
  /\ backend' = NextAfterReply(ok)
  /\ checking' = NoRequest
  /\ accepted' = (accepted \/ ok)
  /\ UNCHANGED <<run, sigpipe, entry, authState, inputState, timer,
                 failedAttempts, indicator, request>>

\* The subprocess crashes or fails to start, or reads end of file because
\* swaylock is gone.
BackendExit ==
  /\ backend # "exited"
  /\ backend' = "exited"
  /\ checking' = NoRequest
  /\ UNCHANGED <<run, sigpipe, entry, authState, inputState, timer,
                 failedAttempts, indicator, request, reply, accepted>>

-----------------------------------------------------------------------------
(* comm_in() *)

CommInAnyReply ==
  /\ run' = "unlocking"
  /\ UNCHANGED <<authState, inputState, timer, failedAttempts, indicator>>

CommInSuccessIgnored ==
  /\ Head(reply)
  /\ UNCHANGED <<run, authState, inputState, timer, failedAttempts, indicator>>

\* "Authentication succeeded": run_display = false
CommInSuccess ==
  /\ Head(reply)
  /\ run' = "unlocking"
  /\ UNCHANGED <<authState, inputState, timer, failedAttempts, indicator>>

CommInFailureStaysValidating ==
  /\ ~Head(reply)
  /\ authState' = authState
  /\ timer' = timer
  /\ failedAttempts' = IF failedAttempts <= MaxShown THEN failedAttempts + 1
                                                     ELSE failedAttempts
  /\ UNCHANGED <<run, inputState>>
  /\ DamageState

\* Refused: show it for three seconds.
CommInFailure ==
  /\ ~Head(reply)
  /\ authState' = "invalid"
  /\ timer' = Schedule(timer, "auth_idle")
  /\ failedAttempts' = IF failedAttempts <= MaxShown THEN failedAttempts + 1
                                                     ELSE failedAttempts
  /\ UNCHANGED <<run, inputState>>
  /\ DamageState

CommIn ==
  /\ run = "running"
  /\ reply # <<>>
  /\ reply' = Tail(reply)
  /\ UNCHANGED <<sigpipe, entry, request, backend, checking, accepted>>
  /\ CommInSuccess \/ CommInFailure

\* A mutant: the end of the subprocess is not noticed.
CommHupIgnored ==
  /\ run = "running"
  /\ reply = <<>>
  /\ backend = "exited"
  /\ UNCHANGED vars

\* POLLHUP without data: the subprocess is gone, exit(EXIT_FAILURE).
CommHup ==
  /\ run = "running"
  /\ reply = <<>>
  /\ backend = "exited"
  /\ run' = "exited"
  /\ UNCHANGED <<sigpipe, entry, authState, inputState, timer,
                 failedAttempts, indicator, pipes>>

-----------------------------------------------------------------------------
Init ==
  /\ run = "running"
  /\ sigpipe \in {"default", "ignored"}
  /\ control = FALSE
  /\ capsLock = FALSE
  /\ buffer = <<>>
  /\ len = 0
  /\ authState = "idle"
  /\ inputState = "idle"
  /\ timer = [set |-> {}, live |-> [k \in Timers |-> 0]]
  /\ failedAttempts = 0
  /\ dirty = FALSE
  /\ frame = FALSE
  /\ shown = Picture("idle", "idle", 0, FALSE)
  /\ request = <<>>
  /\ backend = "reading"
  /\ checking = NoRequest
  /\ reply = <<>>
  /\ accepted = FALSE

Next ==
  \/ \E sym \in Keysyms : HandleKey(sym)
  \/ \E ctrl, caps \in BOOLEAN : Modifiers(ctrl, caps)
  \/ SetInputIdle
  \/ SetAuthIdle
  \/ ClearPassword
  \/ FrameDone
  \/ BackendRead
  \/ \E ok \in BOOLEAN : BackendReply(ok)
  \/ BackendExit
  \/ CommIn
  \/ CommHup

Spec == Init /\ [][Next]_vars

(* The kernel runs the subprocess and PAM answers; poll() reports the      *)
(* reply pipe, and loop_poll() dispatches every ready descriptor.          *)
Fairness ==
  /\ WF_vars(BackendRead)
  /\ WF_vars(\E ok \in BOOLEAN : BackendReply(ok))
  /\ WF_vars(CommIn)
  /\ WF_vars(CommHup)

FairSpec == Spec /\ Fairness

-----------------------------------------------------------------------------
(* Properties *)

Buffers == Seq([ch : Chars, end : Int])

Requests == [size : Int, buf : Buffers]

\* Every variable keeps the type of the C field it stands for; the failure
\* counter saturates one above the largest number the indicator draws.
TypeOK ==
  /\ run \in {"running", "unlocking", "exited", "killed"}
  /\ sigpipe \in {"default", "ignored"}
  /\ control \in BOOLEAN
  /\ capsLock \in BOOLEAN
  /\ buffer \in Buffers
  /\ len \in Int
  /\ authState \in {"idle", "validating", "invalid"}
  /\ inputState \in {"idle", "clear", "letter", "backspace", "neutral"}
  /\ timer \in [set : SUBSET Timers, live : [Timers -> Int]]
  /\ failedAttempts \in 0 .. MaxShown + 1
  /\ dirty \in BOOLEAN
  /\ frame \in BOOLEAN
  /\ request \in Seq(Requests)
  /\ backend \in {"reading", "checking", "exited"}
  /\ checking \in Requests
  /\ reply \in Seq(BOOLEAN)
  /\ accepted \in BOOLEAN

Outstanding == request # <<>> \/ backend = "checking" \/ reply # <<>>

\* Each timer field of swaylock_state is set exactly while the event loop
\* holds one un-removed timer for it: no schedule, cancel or callback leaves a
\* second timer behind or keeps a pointer to a freed one.
TimersTracked ==
  \A k \in Timers : timer.live[k] = IF k \in timer.set THEN 1 ELSE 0

\* Typed characters never stay in memory unattended: while the buffer is not
\* empty the ten second clear_password timer is armed, whatever was typed,
\* submitted, refused or erased before.
PasswordExpires == len # 0 => "clear_password" \in timer.set

\* swaylock.h: input states "decay to [IDLE] after time", and AUTH_STATE_INVALID
\* is only displayed for a while: a transient state has its idle timer armed.
StatesDecay ==
  /\ inputState # "idle" <=> "input_idle" \in timer.set
  /\ authState = "invalid" => "auth_idle" \in timer.set

\* However the password was edited, append_ch never writes outside the buffer:
\* the bytes and the NUL behind them fit in buffer_len.
NulFits == len < BufLen

\* The encoded characters of a buffer follow each other without a gap.
Contiguous(s) ==
  \A i \in DOMAIN s :
    s[i].end = ChSize(s[i].ch) + IF i = 1 THEN 0 ELSE s[i - 1].end

\* password.len always is the length of the string in the buffer, and the buffer
\* holds whole characters, so each request's size field frames its payload (the
\* assertion buf[size - 1] == '\0' of read_comm_request).
Framed ==
  /\ len = StrLen(buffer) /\ Contiguous(buffer)
  /\ \A i \in DOMAIN request : request[i].size = StrLen(request[i].buf) + 1
  /\ backend = "checking" => checking.size = StrLen(checking.buf) + 1

\* What the password buffer and the request pipe rely on, with the types: the
\* string fits its buffer with its NUL, and every length field frames it.
BufferInv == TypeOK /\ Framed /\ NulFits

\* No timer without its pointer, no pointer without its timer, and no typed
\* password and no transient state without the timer that ends it.
TimerInv == TimersTracked /\ PasswordExpires /\ StatesDecay

\* The indicator never says "Verifying" with nothing left to verify: a
\* validating state has a request, a check or a reply under way, or the
\* subprocess is gone and comm_in is about to exit.
ValidatingHasWork ==
  run = "running" /\ authState = "validating" => Outstanding \/ backend = "exited"

\* comm_in ends the lock only on the word of the backend, and the backend only
\* says so after a password it accepts.
UnlockOnlyIfAccepted == run = "unlocking" => accepted

\* pam.c: "Unsuccessful requests may be queued after a successful one; do not
\* process them": with the PAM backend no reply follows a success.
SuccessIsLast ==
  PwBackend = "pam" =>
    \A i \in DOMAIN reply : reply[i] => i = Len(reply) /\ backend = "exited"

\* Unless a redraw is pending behind a frame callback, the indicator shows the
\* current authentication and input states: no handler forgets damage_state().
\* Only a redraw that found both buffers with the compositor is lost.
IndicatorCurrent ==
  /\ ~dirty => shown \in {Picture(authState, inputState, failedAttempts, capsLock), Outdated}
  /\ dirty => frame

\* A successful check unlocks, also when the user has sent further requests or
\* keys meanwhile -- provided swaylock is not killed by SIGPIPE first.
AcceptedUnlocks == (accepted /\ sigpipe = "ignored") ~> (run = "unlocking")

\* Validation comes to an end: the reply arrives or swaylock stops running.
ValidatingEnds ==
  (authState = "validating") ~> (authState # "validating" \/ run # "running")

=============================================================================
