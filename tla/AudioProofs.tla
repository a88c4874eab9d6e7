----------------------------- MODULE AudioProofs -----------------------------
(***************************************************************************)
(* The ring of kernel/audio.c and the speaker stay together: proofs for a  *)
(* ring of any size of at least two, any tones and any length of a tick.   *)
(***************************************************************************)
EXTENDS Audio, TLAPS

LEMMA NoteType ==
  ASSUME NEW freq \in Nat, NEW ms \in Nat
  PROVE  note(freq, ms) \in Notes
<1>1. UNIT \in Nat \ {0}
  BY AudioAssumption
<1>2. (ms + UNIT - 1) \div UNIT \in Nat
  BY <1>1
<1>. QED
  BY <1>2 DEF note, Notes

LEMMA TonesType == TONES \subseteq Notes
BY AudioAssumption DEF Notes

LEMMA GrooveNoteType ==
  ASSUME NEW pos \in 0..GROOVE_LEN-1, NEW level \in 0..3
  PROVE  groove_note(pos, level) \in Notes
<1>. DEFINE f == groove_freq[pos + 1]
            d == groove_dur[pos + 1]
            w == wrong_freq[pos + 1]
<1>1. pos + 1 \in 1..8
  BY AudioAssumption
<1>2. f \in Nat
  BY <1>1 DEF groove_freq
<1>3. d \in Nat
  BY <1>1 DEF groove_dur
<1>4. w \in Nat
  BY <1>1 DEF wrong_freq
<1>. HIDE DEF f, d, w
<1>5. f + f \div 16 \in Nat /\ d + d \div 4 \in Nat /\ d \div 2 \in Nat
  BY <1>2, <1>3
<1>6. /\ note(f + f \div 16, d + d \div 4) \in Notes
      /\ note(w, d \div 2) \in Notes
      /\ note(0, d) \in Notes
      /\ note(f, d) \in Notes
  BY <1>2, <1>3, <1>4, <1>5, NoteType
<1>7. groove_note(pos, level) =
        CASE level = 1 -> note(f + f \div 16, d + d \div 4)
          [] level = 2 -> note(w, d \div 2)
          [] level = 3 -> note(0, d)
          [] OTHER     -> note(f, d)
  BY DEF groove_note, f, d, w
<1>. QED
  BY <1>6, <1>7

LEMMA SignatureType ==
  ASSUME NEW state, NEW i \in Nat, i \in 1..Len(state_sig(state))
  PROVE  state_sig(state)[i] \in Nat
BY DEF state_sig

-----------------------------------------------------------------------------
(***************************************************************************)
(* The ring.                                                               *)
(***************************************************************************)
LEMMA Steps ==
  ASSUME NEW x \in 0..QSIZE-1
  PROVE  (x + 1) % QSIZE \in 0..QSIZE-1 /\ (x + 1) % QSIZE # x
<1>1. QSIZE \in Nat /\ QSIZE >= 2
  BY AudioAssumption
<1>2. CASE x = QSIZE - 1
  <2>1. (x + 1) % QSIZE = 0
    BY <1>1, <1>2
  <2>. QED
    BY <1>1, <1>2, <2>1
<1>3. CASE x < QSIZE - 1
  <2>1. (x + 1) % QSIZE = x + 1
    BY <1>1, <1>3
  <2>. QED
    BY <1>1, <1>3, <2>1
<1>. QED
  BY <1>1, <1>2, <1>3

(* A push keeps the ring a ring, and keeps the note at its head; it is     *)
(* never dropped by an empty ring.                                         *)
LEMMA PushKeeps ==
  ASSUME NEW r \in Rings, NEW n \in Notes
  PROVE  /\ q_push[r][n] \in Rings
         /\ q_push[r][n].head = r.head
         /\ ~ empty(q_push[r][n])
         /\ ~ empty(r) => q_push[r][n].q[r.head] = r.q[r.head]
<1>1. q_push[r][n] = IF (r.tail + 1) % QSIZE = r.head THEN r
                     ELSE [r EXCEPT !.q = [r.q EXCEPT ![r.tail] = n],
                                    !.tail = (r.tail + 1) % QSIZE]
  BY DEF q_push
<1>2. /\ r.q \in [0..QSIZE-1 -> Notes]
      /\ r.head \in 0..QSIZE-1 /\ r.tail \in 0..QSIZE-1
  BY DEF Rings
<1>3. (r.tail + 1) % QSIZE \in 0..QSIZE-1 /\ (r.tail + 1) % QSIZE # r.tail
  BY <1>2, Steps
<1>4. CASE (r.tail + 1) % QSIZE = r.head
  BY <1>1, <1>3, <1>4 DEF empty
<1>5. CASE (r.tail + 1) % QSIZE # r.head
  <2>. DEFINE s == [q |-> [r.q EXCEPT ![r.tail] = n], head |-> r.head,
                    tail |-> (r.tail + 1) % QSIZE]
  <2>1. q_push[r][n] = s
    BY <1>1, <1>5 DEF Rings
  <2>2. s \in Rings
    BY <1>2, <1>3 DEF Rings
  <2>3. r.tail # r.head => s.q[r.head] = r.q[r.head]
    BY <1>2
  <2>4. s.head = r.head /\ s.head # s.tail
    BY <1>5
  <2>. HIDE DEF s
  <2>. QED
    BY <2>1, <2>2, <2>3, <2>4 DEF empty
<1>. QED
  BY <1>4, <1>5

LEMMA ClearedType ==
  ASSUME NEW r \in Rings
  PROVE  cleared(r) \in Rings
<1>1. 0 \in 0..QSIZE-1
  BY AudioAssumption
<1>. QED
  BY <1>1 DEF Rings, cleared

LEMMA PoppedType ==
  ASSUME NEW r \in Rings
  PROVE  popped(r) \in Rings
<1>1. (r.head + 1) % QSIZE \in 0..QSIZE-1
  BY Steps DEF Rings
<1>. QED
  BY <1>1 DEF Rings, popped

(* What is pushed on a ring on which a note is played leaves that note     *)
(* where it is.                                                            *)
SameHead(r, s) ==
  /\ s \in Rings
  /\ s.head = r.head
  /\ ~ empty(r) => ~ empty(s) /\ s.q[s.head] = r.q[r.head]

LEMMA ToneKeeps ==
  ASSUME NEW r \in Rings, NEW n \in Notes
  PROVE  SameHead(r, audio_tone(r, n))
<1>. DEFINE s == q_push[r][n]
            g == note(0, 50)
<1>1. g \in Notes
  BY NoteType
<1>. HIDE DEF g
<1>2. /\ s \in Rings /\ s.head = r.head /\ ~ empty(s)
      /\ ~ empty(r) => s.q[r.head] = r.q[r.head]
  BY PushKeeps
<1>. HIDE DEF s
<1>3. /\ q_push[s][g] \in Rings /\ q_push[s][g].head = s.head /\ ~ empty(q_push[s][g])
      /\ ~ empty(s) => q_push[s][g].q[s.head] = s.q[s.head]
  BY <1>1, <1>2, PushKeeps
<1>. QED
  BY <1>2, <1>3 DEF audio_tone, SameHead, s, g

LEMMA BeepKeeps ==
  ASSUME NEW r \in Rings
  PROVE  SameHead(r, audio_tone(audio_silence(audio_tone(r, note(880, 100)), 50),
                                note(1046, 150)))
<1>. DEFINE a == note(880, 100)
            b == note(0, 50)
            c == note(1046, 150)
            r1 == audio_tone(r, a)
            r2 == q_push[r1][b]
            r3 == audio_tone(r2, c)
<1>1. a \in Notes /\ b \in Notes /\ c \in Notes
  BY NoteType
<1>. HIDE DEF a, b, c
<1>2. SameHead(r, r1)
  BY <1>1, ToneKeeps
<1>. HIDE DEF r1
<1>3. SameHead(r1, r2)
  <2>1. r1 \in Rings
    BY <1>2 DEF SameHead
  <2>2. /\ r2 \in Rings /\ r2.head = r1.head /\ ~ empty(r2)
        /\ ~ empty(r1) => r2.q[r1.head] = r1.q[r1.head]
    BY <1>1, <2>1, PushKeeps
  <2>. QED
    BY <2>2 DEF SameHead
<1>. HIDE DEF r2
<1>4. SameHead(r2, r3)
  BY <1>1, <1>3, ToneKeeps DEF SameHead
<1>. HIDE DEF r3
<1>5. SameHead(r, r3)
  BY <1>2, <1>3, <1>4 DEF SameHead
<1>. QED
  BY <1>5 DEF r3, r2, r1, a, b, c, audio_silence

LEMMA SigNoteType ==
  ASSUME NEW r \in Rings, NEW state, NEW i \in 1..3
  PROVE  sig_note(r, state_sig(state), i) \in Rings
<1>. DEFINE sig == state_sig(state)
<1>1. CASE ~ (i <= Len(sig))
  BY <1>1 DEF sig_note
<1>2. CASE i <= Len(sig)
  <2>1. Len(sig) \in Nat
    BY DEF state_sig
  <2>2. i \in 1..Len(sig)
    BY <1>2, <2>1
  <2>3. sig[i] \in Nat
    BY <2>2, SignatureType
  <2>. HIDE DEF sig
  <2>. DEFINE a == note(sig[i], 200)
              b == note(0, 60)
  <2>4. a \in Notes /\ b \in Notes
    BY <2>3, NoteType
  <2>. HIDE DEF a, b
  <2>5. q_push[r][a] \in Rings
    BY <2>4, PushKeeps
  <2>6. q_push[q_push[r][a]][b] \in Rings
    BY <2>4, <2>5, PushKeeps
  <2>. QED
    BY <1>2, <2>6 DEF sig_note, a, b, sig
<1>. QED
  BY <1>1, <1>2

-----------------------------------------------------------------------------
IInv == TypeOK /\ SpeakerFollowsNote

LEMMA InitHolds == ASSUME Init PROVE IInv
<1>1. /\ 0 \in 0..QSIZE-1 /\ 0 \in 0..TICKS-1 /\ 0 \in 0..GROOVE_LEN-1
  BY AudioAssumption
<1>2. ring \in Rings
  <2>1. [freq |-> 0, dur |-> 0] \in Notes
    BY DEF Notes
  <2>. QED
    BY <1>1, <2>1 DEF Init, Rings
<1>3. playing \in BOOLEAN /\ groove_active \in BOOLEAN
  BY DEF Init
<1>. QED
  BY <1>1, <1>2, <1>3 DEF Init, IInv, TypeOK, SpeakerFollowsNote

(* A command that only adds to the ring                                    *)
LEMMA AskHolds ==
  ASSUME IInv, SameHead(ring, ring'),
         UNCHANGED <<playing, speaker, groove, clock>>
  PROVE  IInv'
<1>1. TypeOK'
  BY DEF IInv, TypeOK, SameHead, groove, clock
<1>2. SpeakerFollowsNote'
  <2>1. CASE playing
    BY <2>1 DEF IInv, SpeakerFollowsNote, SameHead, clock
  <2>2. CASE ~ playing
    BY <2>2 DEF IInv, SpeakerFollowsNote
  <2>. QED
    BY <2>1, <2>2
<1>. QED
  BY <1>1, <1>2 DEF IInv

(* A command that fills the ring anew                                      *)
LEMMA ReplaceHolds ==
  ASSUME IInv, NEW r \in Rings, q_clear(r),
         groove_active' \in BOOLEAN, groove_pos' \in 0..GROOVE_LEN-1,
         corrupt_level' \in 0..3, UNCHANGED clock
  PROVE  IInv'
<1>1. TypeOK'
  BY DEF IInv, TypeOK, q_clear, clock
<1>2. SpeakerFollowsNote'
  BY DEF SpeakerFollowsNote, q_clear
<1>. QED
  BY <1>1, <1>2 DEF IInv

LEMMA PosType ==
  ASSUME NEW pos \in 0..GROOVE_LEN-1
  PROVE  next_pos(pos) \in 0..GROOVE_LEN-1
BY AudioAssumption DEF next_pos

LEMMA SchemaHolds ==
  ASSUME IInv, NEW state \in STATES, cmd_schema_audio(state)
  PROVE  IInv'
<1>. DEFINE sig == state_sig(state)
            r0 == cleared(ring)
            r1 == sig_note(r0, sig, 1)
            r2 == sig_note(r1, sig, 2)
            r3 == sig_note(r2, sig, 3)
<1>1. r0 \in Rings
  BY ClearedType DEF IInv, TypeOK
<1>. HIDE DEF r0
<1>2. r1 \in Rings
  BY <1>1, SigNoteType
<1>. HIDE DEF r1
<1>3. r2 \in Rings
  BY <1>2, SigNoteType
<1>. HIDE DEF r2
<1>4. r3 \in Rings
  BY <1>3, SigNoteType
<1>. HIDE DEF r3
<1>5. q_clear(r3)
  BY DEF cmd_schema_audio, audio_play_schema, r3, r2, r1, r0
<1>6. /\ groove_active' \in BOOLEAN /\ groove_pos' \in 0..GROOVE_LEN-1
      /\ corrupt_level' \in 0..3 /\ UNCHANGED clock
  BY DEF cmd_schema_audio, groove, IInv, TypeOK
<1>. QED
  BY <1>4, <1>5, <1>6, ReplaceHolds

LEMMA GrooveHolds ==
  ASSUME IInv, NEW level \in LEVELS, cmd_groove(level)
  PROVE  IInv'
<1>1. 0 \in 0..GROOVE_LEN-1 /\ level \in 0..3
  BY AudioAssumption
<1>2. q_push[cleared(ring)][groove_note(0, level)] \in Rings
  BY <1>1, GrooveNoteType, ClearedType, PushKeeps DEF IInv, TypeOK
<1>3. next_pos(0) \in 0..GROOVE_LEN-1
  BY <1>1, PosType
<1>4. /\ corrupt_level' = level /\ groove_active' = TRUE
      /\ groove_pos' = next_pos(0) /\ UNCHANGED clock
      /\ q_clear(q_push[cleared(ring)][groove_note(0, level)])
  BY DEF cmd_groove
<1>5. groove_active' \in BOOLEAN
  BY <1>4
<1>. QED
  BY <1>1, <1>2, <1>3, <1>4, <1>5, ReplaceHolds

LEMMA StopHolds == ASSUME IInv, cmd_stopgroove PROVE IInv'
<1>1. cleared(ring) \in Rings
  BY ClearedType DEF IInv, TypeOK
<1>2. groove_active' \in BOOLEAN
  BY DEF cmd_stopgroove
<1>3. /\ groove_pos' \in 0..GROOVE_LEN-1 /\ corrupt_level' \in 0..3
      /\ UNCHANGED clock /\ q_clear(cleared(ring))
  BY DEF cmd_stopgroove, IInv, TypeOK, clock
<1>. QED
  BY <1>1, <1>2, <1>3, ReplaceHolds

-----------------------------------------------------------------------------
(* What audio_tick goes on with is a ring; it is not empty unless nothing  *)
(* waits and the groove is off.                                            *)
LEMMA TickRing ==
  ASSUME IInv
  PROVE  /\ tick_ring \in Rings /\ tick_pos \in 0..GROOVE_LEN-1
         /\ ~ empty(tick_ring)
         /\ playing => tick_ring = ring
<1>1. /\ ring \in Rings /\ groove_pos \in 0..GROOVE_LEN-1 /\ corrupt_level \in 0..3
  BY DEF IInv, TypeOK
<1>2. groove_queued(ring, groove_pos) \in Rings
      /\ ~ empty(groove_queued(ring, groove_pos))
  BY <1>1, GrooveNoteType, PushKeeps DEF groove_queued
<1>3. next_pos(groove_pos) \in 0..GROOVE_LEN-1
  BY <1>1, PosType
<1>4. ~ Starved => ~ empty(ring)
  BY DEF Starved, IInv, SpeakerFollowsNote
<1>. QED
  BY <1>1, <1>2, <1>3, <1>4 DEF tick_ring, tick_pos, Starved

LEMMA TickHolds ==
  ASSUME IInv, NEW ticks \in 0..TICKS-1, audio_tick(ticks)
  PROVE  IInv'
<1>1. CASE tick_idle(ticks)
  <2>1. TypeOK'
    BY <1>1 DEF tick_idle, IInv, TypeOK, groove
  <2>2. SpeakerFollowsNote'
    BY <1>1 DEF tick_idle, IInv, SpeakerFollowsNote
  <2>. QED
    BY <2>1, <2>2 DEF IInv
<1>. DEFINE r == tick_ring
            start == IF playing THEN note_start_tick ELSE ticks
<1>2. /\ r \in Rings /\ tick_pos \in 0..GROOVE_LEN-1
      /\ ~ empty(r) /\ (playing => r = ring)
  BY TickRing
<1>. HIDE DEF r
<1>3. start \in 0..TICKS-1
  BY DEF IInv, TypeOK
<1>. HIDE DEF start
<1>4. r.q[r.head] \in Notes /\ r.q[r.head].freq \in Nat
  BY <1>2 DEF Rings, Notes
<1>5. CASE tick_sound(ticks)
  <2>1. /\ elapsed(ticks, start) < r.q[r.head].dur
        /\ ring' = r /\ groove_pos' = tick_pos /\ playing' = TRUE
        /\ note_start_tick' = start /\ pit_ticks' = ticks
        /\ speaker' = IF playing THEN speaker ELSE r.q[r.head].freq
        /\ UNCHANGED <<groove_active, corrupt_level>>
    BY <1>5 DEF tick_sound, r, start
  <2>2. speaker' = r.q[r.head].freq
    BY <2>1, <1>2 DEF IInv, SpeakerFollowsNote
  <2>3. playing' \in BOOLEAN
    BY <2>1
  <2>4. TypeOK'
    BY <2>1, <2>2, <2>3, <1>2, <1>3, <1>4 DEF IInv, TypeOK
  <2>5. SpeakerFollowsNote'
    BY <2>1, <2>2, <1>2 DEF SpeakerFollowsNote
  <2>. QED
    BY <2>4, <2>5 DEF IInv
<1>6. CASE tick_finish(ticks)
  <2>. DEFINE goes_on == groove_active /\ empty(popped(r))
  <2>1. /\ ring' = IF goes_on THEN groove_queued(popped(r), tick_pos) ELSE popped(r)
        /\ groove_pos' = IF goes_on THEN next_pos(tick_pos) ELSE tick_pos
        /\ playing' = FALSE /\ note_start_tick' = start
        /\ speaker' = 0 /\ pit_ticks' = ticks
        /\ UNCHANGED <<groove_active, corrupt_level>>
    BY <1>6 DEF tick_finish, r, start
  <2>2. popped(r) \in Rings
    BY <1>2, PoppedType
  <2>3. groove_queued(popped(r), tick_pos) \in Rings
    BY <1>2, <2>2, GrooveNoteType, PushKeeps DEF groove_queued, IInv, TypeOK
  <2>4. next_pos(tick_pos) \in 0..GROOVE_LEN-1
    BY <1>2, PosType
  <2>5. playing' \in BOOLEAN /\ speaker' \in Nat
    BY <2>1
  <2>6. ring' \in Rings /\ groove_pos' \in 0..GROOVE_LEN-1
    BY <2>1, <2>2, <2>3, <2>4, <1>2
  <2>7. TypeOK'
    BY <2>1, <2>5, <2>6, <1>3 DEF IInv, TypeOK
  <2>8. SpeakerFollowsNote'
    BY <2>1 DEF SpeakerFollowsNote
  <2>. QED
    BY <2>7, <2>8 DEF IInv
<1>. QED
  BY <1>1, <1>5, <1>6 DEF audio_tick

LEMMA StepHolds == ASSUME IInv, [Next]_vars PROVE IInv'
<1>1. ASSUME NEW n \in TONES, cmd_tone(n) PROVE IInv'
  <2>1. n \in Notes
    BY TonesType
  <2>2. SameHead(ring, ring')
    BY <1>1, <2>1, ToneKeeps DEF cmd_tone, IInv, TypeOK
  <2>. QED
    BY <1>1, <2>2, AskHolds DEF cmd_tone
<1>2. CASE cmd_beep
  <2>1. SameHead(ring, ring')
    BY <1>2, BeepKeeps DEF cmd_beep, IInv, TypeOK
  <2>. QED
    BY <1>2, <2>1, AskHolds DEF cmd_beep
<1>3. ASSUME NEW state \in STATES, cmd_schema_audio(state) PROVE IInv'
  BY <1>3, SchemaHolds
<1>4. ASSUME NEW level \in LEVELS, cmd_groove(level) PROVE IInv'
  BY <1>4, GrooveHolds
<1>5. CASE cmd_stopgroove
  BY <1>5, StopHolds
<1>6. pit_ticks \in 0..TICKS-1 /\ next_tick \in 0..TICKS-1
  <2>1. pit_ticks \in 0..TICKS-1
    BY DEF IInv, TypeOK
  <2>. QED
    BY <2>1, AudioAssumption DEF next_tick
<1>7. CASE Tick
  BY <1>6, <1>7, TickHolds DEF Tick
<1>8. CASE Again
  BY <1>6, <1>8, TickHolds DEF Again
<1>9. CASE UNCHANGED vars
  BY <1>9 DEF vars, groove, clock, IInv, TypeOK, SpeakerFollowsNote
<1>. QED
  BY <1>1, <1>2, <1>3, <1>4, <1>5, <1>7, <1>8, <1>9 DEF Next

THEOREM Invariance == Spec => []IInv
<1>1. Init => IInv
  BY InitHolds
<1>2. IInv /\ [Next]_vars => IInv'
  BY StepHolds
<1>. QED
  BY <1>1, <1>2, PTL DEF Spec

(* The ring, the clock and the groove keep their types.                    *)
THEOREM TypeCorrect == Spec => []TypeOK
<1>1. IInv => TypeOK
  BY DEF IInv
<1>. QED
  BY <1>1, Invariance, PTL

(* No tone outlives its note.                                              *)
THEOREM SpeakerFollows == Spec => []SpeakerFollowsNote
<1>1. IInv => SpeakerFollowsNote
  BY DEF IInv
<1>. QED
  BY <1>1, Invariance, PTL

-----------------------------------------------------------------------------
(***************************************************************************)
(* The ring holds a queue.                                                 *)
(***************************************************************************)
LEMMA Wraps ==
  ASSUME NEW d \in Int
  PROVE  /\ d \in 0..QSIZE-1 => d % QSIZE = d
         /\ d \in QSIZE..2*QSIZE-1 => d % QSIZE = d - QSIZE
         /\ d \in -QSIZE..-1 => d % QSIZE = d + QSIZE
         /\ d % QSIZE \in 0..QSIZE-1
<1>1. QSIZE \in Nat /\ QSIZE >= 2
  BY AudioAssumption
<1>. QED
  BY <1>1

(* How many notes wait                                                     *)
Waiting(r) == (r.tail - r.head) % QSIZE

LEMMA WaitingIs ==
  ASSUME NEW r \in Rings
  PROVE  /\ Waiting(r) \in 0..QSIZE-1
         /\ r.head <= r.tail => Waiting(r) = r.tail - r.head
         /\ r.tail < r.head => Waiting(r) = r.tail - r.head + QSIZE
         /\ Waiting(r) = 0 <=> empty(r)
<1>1. QSIZE \in Nat /\ QSIZE >= 2
  BY AudioAssumption
<1>2. r.head \in 0..QSIZE-1 /\ r.tail \in 0..QSIZE-1
  BY DEF Rings
<1>. DEFINE h == r.head
            t == r.tail
            d == t - h
<1>3. h \in 0..QSIZE-1 /\ t \in 0..QSIZE-1
  BY <1>2
<1>4. d \in Int /\ (h <= t => d \in 0..QSIZE-1) /\ (t < h => d \in -QSIZE..-1)
  BY <1>1, <1>3
<1>5. Waiting(r) = d % QSIZE /\ (empty(r) <=> h = t)
  BY DEF Waiting, empty
<1>. HIDE DEF d
<1>6. /\ d % QSIZE \in 0..QSIZE-1
      /\ h <= t => d % QSIZE = d
      /\ t < h => d % QSIZE = d + QSIZE
  BY <1>4, Wraps
<1>7. d = t - h
  BY DEF d
<1>. HIDE DEF h, t
<1>8. d % QSIZE = 0 <=> h = t
  BY <1>1, <1>3, <1>6, <1>7
<1>. QED
  BY <1>5, <1>6, <1>7, <1>8 DEF h, t

(* The slot of a note that waits                                           *)
Slot(r, i) == (r.head + i - 1) % QSIZE

LEMMA SlotIs ==
  ASSUME NEW r \in Rings, NEW i \in 1..QSIZE
  PROVE  /\ Slot(r, i) \in 0..QSIZE-1
         /\ Slot(r, i) = IF r.head + i - 1 < QSIZE THEN r.head + i - 1
                         ELSE r.head + i - 1 - QSIZE
<1>1. QSIZE \in Nat /\ QSIZE >= 2
  BY AudioAssumption
<1>. DEFINE d == r.head + i - 1
<1>2. r.head \in 0..QSIZE-1
  BY DEF Rings
<1>3. d \in 0..2*QSIZE-1
  BY <1>1, <1>2
<1>4. Slot(r, i) = d % QSIZE
  BY DEF Slot
<1>. HIDE DEF d
<1>5. /\ d \in Int /\ (d < QSIZE => d \in 0..QSIZE-1)
      /\ (~ (d < QSIZE) => d \in QSIZE..2*QSIZE-1)
  BY <1>1, <1>3
<1>6. /\ d % QSIZE \in 0..QSIZE-1
      /\ d < QSIZE => d % QSIZE = d
      /\ ~ (d < QSIZE) => d % QSIZE = d - QSIZE
  BY <1>5, Wraps
<1>7. /\ Slot(r, i) \in 0..QSIZE-1
      /\ Slot(r, i) = IF d < QSIZE THEN d ELSE d - QSIZE
  BY <1>4, <1>6
<1>. QED
  BY <1>1, <1>2, <1>7 DEF d

LEMMA ContentsIs ==
  ASSUME NEW r \in Rings
  PROVE  /\ Contents(r) \in Seq(Notes)
         /\ Len(Contents(r)) = Waiting(r)
         /\ \A i \in 1..Waiting(r) : Contents(r)[i] = r.q[Slot(r, i)]
<1>1. QSIZE \in Nat /\ QSIZE >= 2
  BY AudioAssumption
<1>. DEFINE n == Waiting(r)
<1>2. n \in 0..QSIZE-1
  BY WaitingIs
<1>3. Contents(r) = [i \in 1..n |-> r.q[Slot(r, i)]]
  BY DEF Contents, Waiting, Slot
<1>. HIDE DEF n
<1>4. \A i \in 1..n : r.q[Slot(r, i)] \in Notes
  <2>. SUFFICES ASSUME NEW i \in 1..n PROVE r.q[Slot(r, i)] \in Notes
    OBVIOUS
  <2>1. i \in 1..QSIZE
    BY <1>1, <1>2
  <2>2. Slot(r, i) \in 0..QSIZE-1
    BY <2>1, SlotIs
  <2>. QED
    BY <2>2 DEF Rings
<1>5. n \in Nat
  BY <1>1, <1>2
<1>. QED
  BY <1>3, <1>4, <1>5 DEF n

Kept(s) == Abstract!Kept(s)

LEMMA KeptIs ==
  ASSUME NEW S, NEW s \in Seq(S)
  PROVE  /\ Kept(s) \in Seq(S)
         /\ Len(s) <= QSIZE - 1 => Kept(s) = s
         /\ QSIZE - 1 <= Len(s) => /\ Len(Kept(s)) = QSIZE - 1
                                   /\ \A i \in 1..QSIZE-1 : Kept(s)[i] = s[i]
<1>1. QSIZE \in Nat /\ QSIZE >= 2
  BY AudioAssumption
<1>2. Kept(s) = SubSeq(s, 1, IF Len(s) <= QSIZE - 1 THEN Len(s) ELSE QSIZE - 1)
  BY DEF Kept, Abstract!Kept
<1>3. Len(s) \in Nat
  OBVIOUS
<1>4. CASE Len(s) <= QSIZE - 1
  <2>1. Kept(s) = SubSeq(s, 1, Len(s))
    BY <1>2, <1>4
  <2>2. SubSeq(s, 1, Len(s)) = s
    OBVIOUS
  <2>. QED
    BY <1>1, <1>3, <1>4, <2>1, <2>2
<1>5. CASE ~ (Len(s) <= QSIZE - 1)
  <2>1. Kept(s) = SubSeq(s, 1, QSIZE - 1)
    BY <1>2, <1>5
  <2>. DEFINE n == QSIZE - 1
  <2>2. n \in Nat /\ 1 <= n /\ n <= Len(s)
    BY <1>1, <1>3, <1>5
  <2>. HIDE DEF n
  <2>3. /\ SubSeq(s, 1, n) \in Seq(S) /\ Len(SubSeq(s, 1, n)) = n
        /\ \A i \in 1..n : SubSeq(s, 1, n)[i] = s[i]
    BY <2>2
  <2>. QED
    BY <1>5, <2>1, <2>3 DEF n
<1>. QED
  BY <1>4, <1>5

(* Two sequences of the same length and the same elements                  *)
LEMMA SameSeq ==
  ASSUME NEW S, NEW s \in Seq(S), NEW t \in Seq(S), Len(s) = Len(t),
         \A i \in 1..Len(s) : s[i] = t[i]
  PROVE  s = t
OBVIOUS

LEMMA StepIs ==
  ASSUME NEW x \in 0..QSIZE-1
  PROVE  /\ (x + 1) % QSIZE \in 0..QSIZE-1
         /\ (x + 1) % QSIZE = IF x = QSIZE - 1 THEN 0 ELSE x + 1
<1>1. QSIZE \in Nat /\ QSIZE >= 2
  BY AudioAssumption
<1>. DEFINE y == x + 1
<1>2. /\ y \in Int
      /\ x = QSIZE - 1 => y \in QSIZE..2*QSIZE-1
      /\ x # QSIZE - 1 => y \in 0..QSIZE-1
  BY <1>1
<1>. HIDE DEF y
<1>3. /\ y % QSIZE \in 0..QSIZE-1
      /\ x = QSIZE - 1 => y % QSIZE = y - QSIZE
      /\ x # QSIZE - 1 => y % QSIZE = y
  BY <1>2, Wraps
<1>4. y % QSIZE = IF x = QSIZE - 1 THEN 0 ELSE x + 1
  BY <1>1, <1>3 DEF y
<1>. QED
  BY <1>3, <1>4 DEF y

(* A note that is pushed comes last, when there is room for it.            *)
LEMMA PushAppends ==
  ASSUME NEW r \in Rings, NEW n \in Notes
  PROVE  Contents(q_push[r][n]) =
           IF Len(Contents(r)) < QSIZE - 1 THEN Append(Contents(r), n)
                                           ELSE Contents(r)
<1>1. QSIZE \in Nat /\ QSIZE >= 2
  BY AudioAssumption
<1>. DEFINE p == q_push[r][n]
            w == Waiting(r)
            next == (r.tail + 1) % QSIZE
<1>2. /\ r.q \in [0..QSIZE-1 -> Notes]
      /\ r.head \in 0..QSIZE-1 /\ r.tail \in 0..QSIZE-1
  BY DEF Rings
<1>3. /\ w \in 0..QSIZE-1 /\ Len(Contents(r)) = w
      /\ Contents(r) \in Seq(Notes)
      /\ r.head <= r.tail => w = r.tail - r.head
      /\ r.tail < r.head => w = r.tail - r.head + QSIZE
  BY WaitingIs, ContentsIs
<1>4. next \in 0..QSIZE-1 /\ next = IF r.tail = QSIZE - 1 THEN 0 ELSE r.tail + 1
  BY <1>2, StepIs
<1>5. p = IF next = r.head THEN r
          ELSE [r EXCEPT !.q = [r.q EXCEPT ![r.tail] = n], !.tail = next]
  BY DEF q_push
<1>6. p \in Rings /\ p.head = r.head
  BY PushKeeps
<1>. HIDE DEF w, next, p
<1>7. next = r.head <=> w = QSIZE - 1
  BY <1>1, <1>2, <1>3, <1>4
<1>8. CASE next = r.head
  BY <1>1, <1>3, <1>5, <1>7, <1>8 DEF p
<1>9. CASE next # r.head
  <2>1. w < QSIZE - 1
    BY <1>1, <1>3, <1>7, <1>9
  <2>2. p.q = [r.q EXCEPT ![r.tail] = n] /\ p.tail = next
    BY <1>5, <1>9 DEF Rings
  <2>3. /\ Waiting(p) \in 0..QSIZE-1
        /\ r.head <= next => Waiting(p) = next - r.head
        /\ next < r.head => Waiting(p) = next - r.head + QSIZE
    BY <1>6, <2>2, WaitingIs
  <2>4. Waiting(p) = w + 1
    <3>. DEFINE h == r.head
                t == r.tail
                v == Waiting(p)
    <3>1. /\ h \in 0..QSIZE-1 /\ t \in 0..QSIZE-1 /\ w \in 0..QSIZE-1
          /\ v \in 0..QSIZE-1
      BY <1>2, <1>3, <2>3
    <3>2. /\ h <= t => w = t - h
          /\ t < h => w = t - h + QSIZE
          /\ h <= next => v = next - h
          /\ next < h => v = next - h + QSIZE
          /\ next = IF t = QSIZE - 1 THEN 0 ELSE t + 1
          /\ next # h
      BY <1>3, <1>4, <1>9, <2>3
    <3>. HIDE DEF h, t, v
    <3>3. v = w + 1
      BY <1>1, <3>1, <3>2
    <3>. QED
      BY <3>3 DEF v
  <2>5. /\ Contents(p) \in Seq(Notes) /\ Len(Contents(p)) = w + 1
        /\ \A i \in 1..w + 1 : Contents(p)[i] = p.q[Slot(p, i)]
    BY <1>6, <2>4, ContentsIs
  <2>6. \A i \in 1..w + 1 : Slot(p, i) = Slot(r, i)
    BY <1>6 DEF Slot
  <2>7. ASSUME NEW i \in 1..w PROVE Contents(p)[i] = Contents(r)[i]
    <3>1. i \in 1..QSIZE /\ i \in 1..w + 1 /\ i < w + 1
      BY <1>1, <1>3, <2>1
    <3>2. /\ Slot(r, i) \in 0..QSIZE-1
          /\ Slot(r, i) = IF r.head + i - 1 < QSIZE THEN r.head + i - 1
                          ELSE r.head + i - 1 - QSIZE
      BY <3>1, SlotIs
    <3>3. Slot(r, i) # r.tail
      BY <1>1, <1>2, <1>3, <2>1, <3>1, <3>2
    <3>4. p.q[Slot(r, i)] = r.q[Slot(r, i)]
      BY <1>2, <2>2, <3>2, <3>3
    <3>5. Contents(r)[i] = r.q[Slot(r, i)]
      BY ContentsIs DEF w
    <3>. QED
      BY <2>5, <2>6, <3>1, <3>4, <3>5
  <2>8. Contents(p)[w + 1] = n
    <3>1. w + 1 \in 1..QSIZE /\ w + 1 \in 1..w + 1
      BY <1>1, <1>3
    <3>2. Slot(r, w + 1) = IF r.head + (w + 1) - 1 < QSIZE THEN r.head + (w + 1) - 1
                           ELSE r.head + (w + 1) - 1 - QSIZE
      BY <3>1, SlotIs
    <3>3. Slot(r, w + 1) = r.tail
      <4>. DEFINE h == r.head
                  t == r.tail
                  s == Slot(r, w + 1)
      <4>1. /\ h \in 0..QSIZE-1 /\ t \in 0..QSIZE-1 /\ w \in 0..QSIZE-1
        BY <1>2, <1>3
      <4>2. /\ h <= t => w = t - h
            /\ t < h => w = t - h + QSIZE
            /\ s = IF h + (w + 1) - 1 < QSIZE THEN h + (w + 1) - 1
                    ELSE h + (w + 1) - 1 - QSIZE
        BY <1>3, <3>2
      <4>. HIDE DEF h, t, s
      <4>3. s = t
        BY <1>1, <4>1, <4>2
      <4>. QED
        BY <4>3 DEF s, t
    <3>4. p.q[r.tail] = n
      BY <1>2, <2>2
    <3>. QED
      BY <2>5, <2>6, <3>1, <3>3, <3>4
  <2>9. /\ Append(Contents(r), n) \in Seq(Notes)
        /\ Len(Append(Contents(r), n)) = w + 1
        /\ \A i \in 1..w : Append(Contents(r), n)[i] = Contents(r)[i]
        /\ Append(Contents(r), n)[w + 1] = n
    BY <1>3
  <2>10. w \in Nat
    BY <1>1, <1>3
  <2>11. \A i \in 1..w + 1 : Contents(p)[i] = Append(Contents(r), n)[i]
    <3>. SUFFICES ASSUME NEW i \in 1..w + 1
         PROVE  Contents(p)[i] = Append(Contents(r), n)[i]
      OBVIOUS
    <3>1. i \in 1..w \/ i = w + 1
      BY <2>10
    <3>. QED
      BY <2>7, <2>8, <2>9, <3>1
  <2>12. Contents(p) = Append(Contents(r), n)
    BY <2>5, <2>9, <2>11, SameSeq
  <2>. QED
    BY <1>3, <2>1, <2>12 DEF p
<1>. QED
  BY <1>8, <1>9

(* The note at the head is taken off.                                      *)
LEMMA PoppedIsTail ==
  ASSUME NEW r \in Rings, ~ empty(r)
  PROVE  Contents(popped(r)) = Tail(Contents(r))
<1>1. QSIZE \in Nat /\ QSIZE >= 2
  BY AudioAssumption
<1>. DEFINE p == popped(r)
            w == Waiting(r)
            h == r.head
            t == r.tail
            k == (r.head + 1) % QSIZE
            v == Waiting(popped(r))
<1>2. h \in 0..QSIZE-1 /\ t \in 0..QSIZE-1 /\ h # t
  BY DEF Rings, empty
<1>3. k \in 0..QSIZE-1 /\ k = IF h = QSIZE - 1 THEN 0 ELSE h + 1
  BY <1>2, StepIs
<1>4. p \in Rings /\ p.q = r.q /\ p.head = k /\ p.tail = t
  <2>1. p \in Rings
    BY PoppedType
  <2>. QED
    BY <2>1 DEF popped, Rings
<1>5. /\ w \in 0..QSIZE-1
      /\ h <= t => w = t - h
      /\ t < h => w = t - h + QSIZE
  BY WaitingIs
<1>6. /\ v \in 0..QSIZE-1
      /\ k <= t => v = t - k
      /\ t < k => v = t - k + QSIZE
  <2>. HIDE DEF p, k, t
  <2>1. /\ Waiting(p) \in 0..QSIZE-1
        /\ p.head <= p.tail => Waiting(p) = p.tail - p.head
        /\ p.tail < p.head => Waiting(p) = p.tail - p.head + QSIZE
    BY <1>4, WaitingIs
  <2>. QED
    BY <1>4, <2>1 DEF p
<1>7. v = w - 1 /\ w >= 1
  <2>. HIDE DEF h, t, k, v, w
  <2>. QED
    BY <1>1, <1>2, <1>3, <1>5, <1>6
<1>8. /\ Contents(r) \in Seq(Notes) /\ Len(Contents(r)) = w
      /\ \A i \in 1..w : Contents(r)[i] = r.q[Slot(r, i)]
  BY ContentsIs
<1>9. /\ Contents(p) \in Seq(Notes) /\ Len(Contents(p)) = v
      /\ \A i \in 1..v : Contents(p)[i] = r.q[Slot(p, i)]
  <2>. HIDE DEF p
  <2>1. /\ Contents(p) \in Seq(Notes) /\ Len(Contents(p)) = Waiting(p)
        /\ \A i \in 1..Waiting(p) : Contents(p)[i] = p.q[Slot(p, i)]
    BY <1>4, ContentsIs
  <2>. QED
    BY <1>4, <2>1 DEF p
<1>10. ASSUME NEW i \in 1..v PROVE Slot(p, i) = Slot(r, i + 1)
  <2>1. i \in 1..QSIZE /\ i + 1 \in 1..QSIZE
    <3>. HIDE DEF v
    <3>. QED
      BY <1>1, <1>6, <1>7, <1>5
  <2>. DEFINE x == Slot(p, i)
              y == Slot(r, i + 1)
  <2>2. x = IF k + i - 1 < QSIZE THEN k + i - 1 ELSE k + i - 1 - QSIZE
    <3>. HIDE DEF p, k
    <3>1. Slot(p, i) = IF p.head + i - 1 < QSIZE THEN p.head + i - 1
                       ELSE p.head + i - 1 - QSIZE
      BY <1>4, <2>1, SlotIs
    <3>. QED
      BY <1>4, <3>1
  <2>3. y = IF h + (i + 1) - 1 < QSIZE THEN h + (i + 1) - 1
            ELSE h + (i + 1) - 1 - QSIZE
    BY <2>1, SlotIs
  <2>. HIDE DEF x, y, h, k, v, w
  <2>4. x = y
    BY <1>1, <1>2, <1>3, <1>5, <1>6, <1>7, <2>1, <2>2, <2>3
  <2>. QED
    BY <2>4 DEF x, y
<1>. HIDE DEF p, w, h, t, k, v
<1>11. Contents(r) # <<>>
  BY <1>1, <1>5, <1>7, <1>8
<1>. DEFINE c == Contents(r)
<1>. HIDE DEF c
<1>12. /\ Tail(c) \in Seq(Notes) /\ Len(Tail(c)) = w - 1
       /\ \A i \in 1..w - 1 : Tail(c)[i] = c[i + 1]
  <2>1. c \in Seq(Notes) /\ c # <<>> /\ Len(c) = w
    BY <1>8, <1>11 DEF c
  <2>2. /\ Tail(c) \in Seq(Notes) /\ Len(Tail(c)) = Len(c) - 1
        /\ \A i \in 1..Len(c) - 1 : Tail(c)[i] = c[i + 1]
    BY <2>1
  <2>. QED
    BY <2>1, <2>2
<1>13. ASSUME NEW i \in 1..v PROVE Contents(p)[i] = Tail(c)[i]
  <2>1. i + 1 \in 1..w /\ i \in 1..w - 1
    BY <1>1, <1>5, <1>7
  <2>2. Contents(p)[i] = r.q[Slot(r, i + 1)]
    BY <1>9, <1>10
  <2>3. Contents(r)[i + 1] = r.q[Slot(r, i + 1)]
    BY <1>8, <2>1
  <2>. QED
    BY <1>12, <2>1, <2>2, <2>3 DEF c
<1>14. Contents(p) = Tail(c)
  BY <1>7, <1>9, <1>12, <1>13, SameSeq
<1>. QED
  BY <1>14 DEF p, c

(* A ring keeps, of what waited before (s) and what was asked for since    *)
(* (b), as much as there is room for.                                      *)
Holding(r, s, b) == r \in Rings /\ Contents(r) = Kept(s \o b)

LEMMA PushHolding ==
  ASSUME NEW r, NEW n \in Notes, NEW s \in Seq(Notes), NEW b \in Seq(Notes),
         Holding(r, s, b)
  PROVE  Holding(q_push[r][n], s, Append(b, n))
<1>1. QSIZE \in Nat /\ QSIZE >= 2
  BY AudioAssumption
<1>2. r \in Rings /\ Contents(r) = Kept(s \o b)
  BY DEF Holding
<1>3. q_push[r][n] \in Rings
  BY <1>2, PushKeeps
<1>. DEFINE u == s \o b
            c == Contents(r)
<1>4. u \in Seq(Notes) /\ Len(u) \in Nat
  OBVIOUS
<1>5. s \o Append(b, n) = Append(u, n)
  OBVIOUS
<1>6. Contents(q_push[r][n]) = IF Len(c) < QSIZE - 1 THEN Append(c, n) ELSE c
  BY <1>2, PushAppends
<1>7. c = Kept(u)
  BY <1>2
<1>. HIDE DEF u, c
<1>8. /\ Append(u, n) \in Seq(Notes) /\ Len(Append(u, n)) = Len(u) + 1
      /\ \A i \in 1..Len(u) : Append(u, n)[i] = u[i]
  BY <1>4
<1>9. CASE Len(u) < QSIZE - 1
  <2>1. Kept(u) = u
    BY <1>1, <1>4, <1>9, KeptIs
  <2>2. Kept(Append(u, n)) = Append(u, n)
    <3>1. Len(Append(u, n)) <= QSIZE - 1
      BY <1>1, <1>4, <1>8, <1>9
    <3>. QED
      BY <1>8, <3>1, KeptIs
  <2>. QED
    BY <1>3, <1>5, <1>6, <1>7, <1>9, <2>1, <2>2 DEF Holding
<1>10. CASE ~ (Len(u) < QSIZE - 1)
  <2>1. QSIZE - 1 <= Len(u) /\ QSIZE - 1 <= Len(u) + 1
    BY <1>1, <1>4, <1>10
  <2>2. /\ Kept(u) \in Seq(Notes) /\ Len(Kept(u)) = QSIZE - 1
        /\ \A i \in 1..QSIZE-1 : Kept(u)[i] = u[i]
    BY <1>4, <2>1, KeptIs
  <2>3. /\ Kept(Append(u, n)) \in Seq(Notes)
        /\ Len(Kept(Append(u, n))) = QSIZE - 1
        /\ \A i \in 1..QSIZE-1 : Kept(Append(u, n))[i] = Append(u, n)[i]
    BY <1>8, <2>1, KeptIs
  <2>4. \A i \in 1..QSIZE-1 : Kept(Append(u, n))[i] = Kept(u)[i]
    BY <1>1, <1>4, <1>8, <2>1, <2>2, <2>3
  <2>5. Kept(Append(u, n)) = Kept(u)
    BY <2>2, <2>3, <2>4, SameSeq
  <2>6. ~ (Len(c) < QSIZE - 1)
    BY <1>1, <1>7, <2>2
  <2>. QED
    BY <1>3, <1>5, <1>6, <1>7, <2>5, <2>6 DEF Holding
<1>. QED
  BY <1>9, <1>10

(* A ring on which nothing is asked for, and one that was cleared          *)
LEMMA HoldsItself ==
  ASSUME NEW r \in Rings
  PROVE  /\ Holding(r, Contents(r), <<>>)
         /\ Holding(cleared(r), <<>>, <<>>)
         /\ Contents(r) \in Seq(Notes)
<1>1. QSIZE \in Nat /\ QSIZE >= 2
  BY AudioAssumption
<1>. DEFINE c == Contents(r)
<1>2. c \in Seq(Notes) /\ Len(c) = Waiting(r) /\ Waiting(r) \in 0..QSIZE-1
  BY ContentsIs, WaitingIs
<1>. HIDE DEF c
<1>3. c \o <<>> = c
  BY <1>2
<1>4. Kept(c) = c
  <2>1. Len(c) <= QSIZE - 1
    BY <1>1, <1>2
  <2>. QED
    BY <1>2, <2>1, KeptIs
<1>5. Holding(r, c, <<>>)
  BY <1>3, <1>4 DEF Holding, c
<1>6. cleared(r) \in Rings /\ empty(cleared(r))
  <2>1. cleared(r) \in Rings
    BY ClearedType
  <2>. QED
    BY <2>1 DEF cleared, empty, Rings
<1>7. Contents(cleared(r)) \in Seq(Notes) /\ Len(Contents(cleared(r))) = 0
  BY <1>6, ContentsIs, WaitingIs
<1>8. Contents(cleared(r)) = <<>>
  BY <1>7
<1>9. <<>> \in Seq(Notes) /\ <<>> \o <<>> = <<>> /\ Len(<<>>) = 0
  OBVIOUS
<1>10. Kept(<<>>) = <<>>
  <2>. DEFINE e == <<>>
  <2>1. e \in Seq(Notes) /\ Len(e) <= QSIZE - 1
    BY <1>1, <1>9
  <2>. HIDE DEF e
  <2>2. Kept(e) = e
    BY <2>1, KeptIs
  <2>. QED
    BY <2>2 DEF e
<1>. QED
  BY <1>2, <1>5, <1>6, <1>8, <1>9, <1>10 DEF Holding, c

-----------------------------------------------------------------------------
(***************************************************************************)
(* What is asked for: notes that last.                                     *)
(***************************************************************************)
Sounds == [freq : Nat, dur : Nat \ {0}]

LEMMA SoundsAreNotes == Sounds \subseteq Notes
BY DEF Sounds, Notes

LEMMA NoteLasts ==
  ASSUME NEW freq \in Nat, NEW ms \in Nat \ {0}
  PROVE  note(freq, ms) \in Sounds
<1>1. UNIT \in Nat /\ UNIT >= 1
  BY AudioAssumption
<1>. DEFINE x == ms + UNIT - 1
            d == x \div UNIT
<1>2. x \in Nat /\ x >= UNIT
  BY <1>1
<1>. HIDE DEF x
<1>3. d \in Nat /\ d # 0
  BY <1>1, <1>2
<1>4. note(freq, ms) = [freq |-> freq, dur |-> d]
  BY DEF note, x
<1>. HIDE DEF d
<1>. QED
  BY <1>3, <1>4 DEF Sounds

LEMMA TonesLast == TONES \subseteq Sounds
BY AudioAssumption DEF Sounds

LEMMA GrooveNoteLasts ==
  ASSUME NEW pos \in 0..GROOVE_LEN-1, NEW level \in 0..3
  PROVE  groove_note(pos, level) \in Sounds
<1>. DEFINE f == groove_freq[pos + 1]
            d == groove_dur[pos + 1]
            w == wrong_freq[pos + 1]
<1>1. pos + 1 \in 1..8
  BY AudioAssumption
<1>2. f \in Nat
  BY <1>1 DEF groove_freq
<1>3. d \in Nat /\ d >= 2
  BY <1>1 DEF groove_dur
<1>4. w \in Nat
  BY <1>1 DEF wrong_freq
<1>. HIDE DEF f, d, w
<1>5. /\ f + f \div 16 \in Nat
      /\ d + d \div 4 \in Nat \ {0} /\ d \div 2 \in Nat \ {0} /\ d \in Nat \ {0}
  BY <1>2, <1>3
<1>6. /\ note(f + f \div 16, d + d \div 4) \in Sounds
      /\ note(w, d \div 2) \in Sounds
      /\ note(0, d) \in Sounds
      /\ note(f, d) \in Sounds
  BY <1>2, <1>4, <1>5, NoteLasts
<1>7. groove_note(pos, level) =
        CASE level = 1 -> note(f + f \div 16, d + d \div 4)
          [] level = 2 -> note(w, d \div 2)
          [] level = 3 -> note(0, d)
          [] OTHER     -> note(f, d)
  BY DEF groove_note, f, d, w
<1>. QED
  BY <1>6, <1>7

(* The part of a signature that its first k notes make                     *)
Part(sig, k) ==
  [i \in 1..2 * (IF k <= Len(sig) THEN k ELSE Len(sig)) |->
     IF i % 2 = 1 THEN note(sig[(i + 1) \div 2], 200) ELSE note(0, 60)]

LEMMA SignatureIs ==
  ASSUME NEW state
  PROVE  /\ state_sig(state) \in Seq(Nat)
         /\ Len(state_sig(state)) \in 1..3
BY DEF state_sig

LEMMA PartIs ==
  ASSUME NEW sig \in Seq(Nat), NEW k \in Nat
  PROVE  Part(sig, k) \in Seq(Sounds)
<1>. DEFINE n == IF k <= Len(sig) THEN k ELSE Len(sig)
            f(i) == IF i % 2 = 1 THEN note(sig[(i + 1) \div 2], 200)
                                 ELSE note(0, 60)
<1>1. n \in Nat /\ n <= Len(sig) /\ Len(sig) \in Nat
  OBVIOUS
<1>2. Part(sig, k) = [i \in 1..2 * n |-> f(i)]
  BY DEF Part
<1>. HIDE DEF n
<1>3. ASSUME NEW i \in 1..2 * n PROVE f(i) \in Sounds
  <2>1. note(0, 60) \in Sounds
    BY NoteLasts
  <2>2. (i + 1) \div 2 \in 1..Len(sig)
    BY <1>1
  <2>3. sig[(i + 1) \div 2] \in Nat
    BY <2>2
  <2>4. note(sig[(i + 1) \div 2], 200) \in Sounds
    BY <2>3, NoteLasts
  <2>. QED
    BY <2>1, <2>4
<1>. HIDE DEF f
<1>. DEFINE m == 2 * n
<1>4. m \in Nat /\ Part(sig, k) = [i \in 1..m |-> f(i)]
  BY <1>1, <1>2
<1>5. \A i \in 1..m : f(i) \in Sounds
  BY <1>3
<1>. HIDE DEF m
<1>6. [i \in 1..m |-> f(i)] \in [1..m -> Sounds]
  BY <1>5
<1>. QED
  BY <1>4, <1>6

(* One more note of the signature, with the gap after it                   *)
LEMMA PartGrows ==
  ASSUME NEW sig \in Seq(Nat), NEW k \in Nat, k + 1 <= Len(sig)
  PROVE  Append(Append(Part(sig, k), note(sig[k + 1], 200)), note(0, 60))
           = Part(sig, k + 1)
<1>. DEFINE f(i) == IF i % 2 = 1 THEN note(sig[(i + 1) \div 2], 200)
                                 ELSE note(0, 60)
            s == Part(sig, k)
            t == Part(sig, k + 1)
            a == note(sig[k + 1], 200)
            g == note(0, 60)
<1>1. s \in Seq(Sounds) /\ t \in Seq(Sounds)
  BY PartIs
<1>2. k <= Len(sig) /\ Len(sig) \in Nat
  OBVIOUS
<1>3. s = [i \in 1..2 * k |-> f(i)] /\ t = [i \in 1..2 * (k + 1) |-> f(i)]
  BY <1>2 DEF Part
<1>4. a \in Sounds /\ g \in Sounds
  <2>1. k + 1 \in 1..Len(sig)
    BY <1>2
  <2>2. sig[k + 1] \in Nat
    BY <2>1
  <2>. QED
    BY <2>2, NoteLasts
<1>5. f(2 * k + 1) = a
  <2>1. (2 * k + 1) % 2 = 1 /\ ((2 * k + 1) + 1) \div 2 = k + 1
    OBVIOUS
  <2>. HIDE DEF a
  <2>2. f(2 * k + 1) = note(sig[((2 * k + 1) + 1) \div 2], 200)
    BY <2>1
  <2>. QED
    BY <2>1, <2>2 DEF a
<1>6. f(2 * k + 2) = g
  <2>1. (2 * k + 2) % 2 = 0
    OBVIOUS
  <2>. QED
    BY <2>1
<1>. HIDE DEF f, s, t, a, g
<1>7. Len(s) = 2 * k /\ Len(t) = 2 * k + 2
  BY <1>1, <1>3
<1>8. \A i \in 1..2 * k : s[i] = f(i)
  BY <1>3
<1>9. \A i \in 1..2 * k + 2 : t[i] = f(i)
  BY <1>3
<1>. DEFINE u == Append(Append(s, a), g)
<1>10. /\ u \in Seq(Sounds) /\ Len(u) = 2 * k + 2
       /\ \A i \in 1..2 * k : u[i] = s[i]
       /\ u[2 * k + 1] = a /\ u[2 * k + 2] = g
  <2>1. /\ Append(s, a) \in Seq(Sounds) /\ Len(Append(s, a)) = 2 * k + 1
        /\ \A i \in 1..2 * k : Append(s, a)[i] = s[i]
        /\ Append(s, a)[2 * k + 1] = a
    BY <1>1, <1>4, <1>7
  <2>. DEFINE v == Append(s, a)
  <2>. HIDE DEF v
  <2>2. /\ Append(v, g) \in Seq(Sounds) /\ Len(Append(v, g)) = 2 * k + 2
        /\ \A i \in 1..2 * k + 1 : Append(v, g)[i] = v[i]
        /\ Append(v, g)[2 * k + 2] = g
    <3>1. v \in Seq(Sounds) /\ Len(v) = 2 * k + 1
      BY <2>1 DEF v
    <3>. QED
      BY <3>1, <1>4
  <2>. QED
    BY <2>1, <2>2 DEF v
<1>. HIDE DEF u
<1>11. ASSUME NEW i \in 1..2 * k + 2 PROVE u[i] = t[i]
  <2>1. i \in 1..2 * k \/ i = 2 * k + 1 \/ i = 2 * k + 2
    OBVIOUS
  <2>2. t[i] = f(i)
    BY <1>9
  <2>. QED
    BY <1>5, <1>6, <1>8, <1>10, <2>1, <2>2
<1>12. u = t
  BY <1>1, <1>7, <1>10, <1>11, SameSeq
<1>. QED
  BY <1>12 DEF u, s, t, a, g

LEMMA SoundsInOrder ==
  ASSUME NEW b \in Seq(Sounds)
  PROVE  b \in Seq(Notes)
BY SoundsAreNotes

LEMMA AtMostThree ==
  ASSUME NEW n \in 1..3
  PROVE  (IF 3 <= n THEN 3 ELSE n) = n
<1>1. n = 3 \/ (n \in Int /\ ~ (3 <= n))
  OBVIOUS
<1>. QED
  BY <1>1

LEMMA SigHolding ==
  ASSUME NEW state, NEW r, NEW k \in 0..2,
         Holding(r, <<>>, Part(state_sig(state), k))
  PROVE  Holding(sig_note(r, state_sig(state), k + 1), <<>>,
                 Part(state_sig(state), k + 1))
<1>. DEFINE sig == state_sig(state)
<1>1. sig \in Seq(Nat) /\ Len(sig) \in 1..3
  BY SignatureIs
<1>2. Part(sig, k) \in Seq(Sounds) /\ k \in Nat
  BY <1>1, PartIs
<1>3. Holding(r, <<>>, Part(sig, k))
  OBVIOUS
<1>. HIDE DEF sig
<1>4. CASE k + 1 <= Len(sig)
  <2>. DEFINE a == note(sig[k + 1], 200)
              g == note(0, 60)
              e == <<>>
              p == Part(sig, k)
  <2>1. a \in Notes /\ g \in Notes
    <3>1. k + 1 \in 1..Len(sig)
      BY <1>1, <1>2, <1>4
    <3>2. sig[k + 1] \in Nat
      BY <1>1, <3>1
    <3>. QED
      BY <3>2, NoteType
  <2>2. e \in Seq(Notes)
    OBVIOUS
  <2>3. Append(Append(p, a), g) = Part(sig, k + 1)
    BY <1>1, <1>2, <1>4, PartGrows
  <2>4. p \in Seq(Notes) /\ Append(p, a) \in Seq(Notes)
    BY <1>2, <2>1, SoundsInOrder
  <2>5. sig_note(r, sig, k + 1) = q_push[q_push[r][a]][g]
    BY <1>4 DEF sig_note
  <2>6. Holding(r, e, p)
    BY <1>3
  <2>. HIDE DEF a, g, e, p
  <2>7. Holding(q_push[r][a], e, Append(p, a))
    BY <2>1, <2>2, <2>4, <2>6, PushHolding
  <2>8. Holding(q_push[q_push[r][a]][g], e, Append(Append(p, a), g))
    BY <2>1, <2>2, <2>4, <2>7, PushHolding
  <2>. QED
    BY <2>3, <2>5, <2>8 DEF e, sig
<1>5. CASE ~ (k + 1 <= Len(sig))
  <2>1. sig_note(r, sig, k + 1) = r
    BY <1>5 DEF sig_note
  <2>2. (IF k + 1 <= Len(sig) THEN k + 1 ELSE Len(sig))
          = (IF k <= Len(sig) THEN k ELSE Len(sig))
    BY <1>1, <1>2, <1>5
  <2>3. Part(sig, k + 1) = Part(sig, k)
    BY <2>2 DEF Part
  <2>. QED
    BY <1>3, <2>1, <2>3 DEF sig
<1>. QED
  BY <1>4, <1>5

LEMMA SignatureHolding ==
  ASSUME NEW state, NEW r, Holding(r, <<>>, <<>>)
  PROVE  LET sig == state_sig(state)
         IN  Holding(sig_note(sig_note(sig_note(r, sig, 1), sig, 2), sig, 3),
                     <<>>, Gapped(sig))
<1>. DEFINE sig == state_sig(state)
            r1 == sig_note(r, sig, 1)
            r2 == sig_note(r1, sig, 2)
            r3 == sig_note(r2, sig, 3)
<1>1. sig \in Seq(Nat) /\ Len(sig) \in 1..3
  BY SignatureIs
<1>2. Part(sig, 0) = <<>>
  <2>. HIDE DEF sig
  <2>1. 2 * (IF 0 <= Len(sig) THEN 0 ELSE Len(sig)) = 0
    BY <1>1
  <2>2. Part(sig, 0) \in Seq(Sounds)
    BY <1>1, PartIs
  <2>3. DOMAIN Part(sig, 0) = 1..0
    BY <2>1 DEF Part
  <2>4. Len(Part(sig, 0)) = 0
    BY <2>2, <2>3
  <2>. QED
    BY <2>2, <2>4
<1>3. Part(sig, 3) = Gapped(sig)
  <2>. HIDE DEF sig
  <2>1. (IF 3 <= Len(sig) THEN 3 ELSE Len(sig)) = Len(sig)
    BY <1>1, AtMostThree
  <2>. QED
    BY <2>1 DEF Part, Gapped
<1>4. Holding(r, <<>>, Part(sig, 0))
  BY <1>2
<1>5. Holding(sig_note(r, sig, 1), <<>>, Part(sig, 1))
  <2>1. 0 \in 0..2 /\ 0 + 1 = 1
    OBVIOUS
  <2>2. Holding(sig_note(r, sig, 0 + 1), <<>>, Part(sig, 0 + 1))
    BY <1>4, <2>1, SigHolding
  <2>. QED
    BY <2>1, <2>2
<1>. HIDE DEF r1
<1>6. Holding(sig_note(r1, sig, 2), <<>>, Part(sig, 2))
  <2>1. 1 \in 0..2 /\ 1 + 1 = 2
    OBVIOUS
  <2>2. Holding(sig_note(r1, sig, 1 + 1), <<>>, Part(sig, 1 + 1))
    BY <1>5, <2>1, SigHolding DEF r1
  <2>. QED
    BY <2>1, <2>2
<1>. HIDE DEF r2
<1>7. Holding(sig_note(r2, sig, 3), <<>>, Part(sig, 3))
  <2>1. 2 \in 0..2 /\ 2 + 1 = 3
    OBVIOUS
  <2>2. Holding(sig_note(r2, sig, 2 + 1), <<>>, Part(sig, 2 + 1))
    BY <1>6, <2>1, SigHolding DEF r2
  <2>. QED
    BY <2>1, <2>2
<1>. QED
  BY <1>3, <1>7 DEF r1, r2

LEMMA ToneHolding ==
  ASSUME NEW r, NEW n \in Notes, NEW s \in Seq(Notes), NEW b \in Seq(Notes),
         Holding(r, s, b)
  PROVE  /\ Holding(audio_tone(r, n), s, Append(Append(b, n), note(0, 50)))
         /\ Append(Append(b, n), note(0, 50)) \in Seq(Notes)
<1>. DEFINE g == note(0, 50)
<1>1. g \in Notes
  BY NoteType
<1>. HIDE DEF g
<1>2. Append(b, n) \in Seq(Notes) /\ Append(Append(b, n), g) \in Seq(Notes)
  BY <1>1
<1>3. Holding(q_push[r][n], s, Append(b, n))
  BY PushHolding
<1>4. Holding(q_push[q_push[r][n]][g], s, Append(Append(b, n), g))
  BY <1>1, <1>2, <1>3, PushHolding
<1>. QED
  BY <1>2, <1>4 DEF audio_tone, g

(* s is the first k notes of t.                                            *)
Spells(s, k, t) ==
  s \in Seq(Notes) /\ k \in Nat /\ Len(s) = k /\ \A i \in 1..k : s[i] = t[i]

LEMMA SpellsMore ==
  ASSUME NEW s, NEW k, NEW t, NEW n \in Notes, Spells(s, k, t), t[k + 1] = n
  PROVE  Spells(Append(s, n), k + 1, t)
BY DEF Spells

LEMMA FiveNotes ==
  ASSUME NEW a \in Notes, NEW g \in Notes, NEW c \in Notes
  PROVE  Append(Append(Append(Append(Append(<<>>, a), g), g), c), g)
           = <<a, g, g, c, g>>
<1>. DEFINE s0 == <<>>
            s1 == Append(s0, a)
            s2 == Append(s1, g)
            s3 == Append(s2, g)
            s4 == Append(s3, c)
            s5 == Append(s4, g)
            t == <<a, g, g, c, g>>
<1>1. /\ t \in Seq(Notes) /\ Len(t) = 5
      /\ t[1] = a /\ t[2] = g /\ t[3] = g /\ t[4] = c /\ t[5] = g
  OBVIOUS
<1>2. Spells(s0, 0, t)
  BY DEF Spells
<1>3. 0 + 1 = 1 /\ 1 + 1 = 2 /\ 2 + 1 = 3 /\ 3 + 1 = 4 /\ 4 + 1 = 5
  OBVIOUS
<1>. HIDE DEF t, s0
<1>4. Spells(s1, 0 + 1, t)
  BY <1>1, <1>2, <1>3, SpellsMore
<1>5. Spells(s1, 1, t)
  BY <1>3, <1>4
<1>. HIDE DEF s1
<1>6. Spells(s2, 1 + 1, t)
  BY <1>1, <1>5, <1>3, SpellsMore
<1>7. Spells(s2, 2, t)
  BY <1>3, <1>6
<1>. HIDE DEF s2
<1>8. Spells(s3, 2 + 1, t)
  BY <1>1, <1>7, <1>3, SpellsMore
<1>9. Spells(s3, 3, t)
  BY <1>3, <1>8
<1>. HIDE DEF s3
<1>10. Spells(s4, 3 + 1, t)
  BY <1>1, <1>9, <1>3, SpellsMore
<1>11. Spells(s4, 4, t)
  BY <1>3, <1>10
<1>. HIDE DEF s4
<1>12. Spells(s5, 4 + 1, t)
  BY <1>1, <1>11, <1>3, SpellsMore
<1>13. Spells(s5, 5, t)
  BY <1>3, <1>12
<1>. HIDE DEF s5
<1>14. s5 = t
  BY <1>1, <1>13, SameSeq DEF Spells
<1>. QED
  BY <1>14 DEF s5, s4, s3, s2, s1, s0, t

LEMMA TwoNotes ==
  ASSUME NEW a \in Notes, NEW g \in Notes
  PROVE  Append(Append(<<>>, a), g) = <<a, g>>
<1>. DEFINE s0 == <<>>
            s1 == Append(s0, a)
            s2 == Append(s1, g)
            t == <<a, g>>
<1>1. t \in Seq(Notes) /\ Len(t) = 2 /\ t[1] = a /\ t[2] = g
  OBVIOUS
<1>2. Spells(s0, 0, t)
  BY DEF Spells
<1>3. 0 + 1 = 1 /\ 1 + 1 = 2
  OBVIOUS
<1>. HIDE DEF t, s0
<1>4. Spells(s1, 0 + 1, t)
  BY <1>1, <1>2, <1>3, SpellsMore
<1>5. Spells(s1, 1, t)
  BY <1>3, <1>4
<1>. HIDE DEF s1
<1>6. Spells(s2, 1 + 1, t)
  BY <1>1, <1>5, <1>3, SpellsMore
<1>7. Spells(s2, 2, t)
  BY <1>3, <1>6
<1>. HIDE DEF s2
<1>8. s2 = t
  BY <1>1, <1>7, SameSeq DEF Spells
<1>. QED
  BY <1>8 DEF s2, s1, s0, t

LEMMA TwoTones ==
  ASSUME NEW r, NEW s \in Seq(Notes), NEW a \in Notes, NEW c \in Notes,
         NEW g \in Notes, g = note(0, 50), Holding(r, s, <<>>)
  PROVE  Holding(audio_tone(audio_silence(audio_tone(r, a), 50), c),
                 s, <<a, g, g, c, g>>)
<1>. DEFINE e == <<>>
            r1 == audio_tone(r, a)
            r2 == audio_silence(r1, 50)
            r3 == audio_tone(r2, c)
            b1 == Append(Append(e, a), g)
            b2 == Append(b1, g)
            b3 == Append(Append(b2, c), g)
<1>1. e \in Seq(Notes) /\ Holding(r, s, e)
  OBVIOUS
<1>2. b3 = <<a, g, g, c, g>>
  BY FiveNotes
<1>. HIDE DEF e
<1>3. Holding(r1, s, b1) /\ b1 \in Seq(Notes)
  BY <1>1, ToneHolding
<1>. HIDE DEF r1, b1
<1>4. r2 = q_push[r1][g]
  BY DEF audio_silence
<1>5. Holding(r2, s, b2) /\ b2 \in Seq(Notes)
  BY <1>3, <1>4, PushHolding
<1>. HIDE DEF r2, b2
<1>6. Holding(r3, s, b3)
  BY <1>5, ToneHolding
<1>7. Holding(r3, s, <<a, g, g, c, g>>)
  BY <1>2, <1>6
<1>. QED
  BY <1>7 DEF r3, r2, r1

beep_notes == <<note(880, 100), note(0, 50), note(0, 50),
                note(1046, 150), note(0, 50)>>

LEMMA BeepHolding ==
  ASSUME NEW r, NEW s \in Seq(Notes), Holding(r, s, <<>>)
  PROVE  Holding(audio_tone(audio_silence(audio_tone(r, note(880, 100)), 50),
                            note(1046, 150)),
                 s, beep_notes)
<1>1. note(880, 100) \in Notes /\ note(0, 50) \in Notes /\ note(1046, 150) \in Notes
  BY NoteType
<1>. QED
  BY <1>1, TwoTones DEF beep_notes

(* Everything that is asked for lasts.                                     *)
LEMMA AskedLasts ==
  ASSUME NEW b \in Asked
  PROVE  b \in Seq(Sounds)
<1>1. CASE b = <<>>
  BY <1>1
<1>2. CASE b \in groove_notes
  <2>1. PICK pos \in 0..GROOVE_LEN-1, level \in 0..3 : b = <<groove_note(pos, level)>>
    BY <1>2 DEF groove_notes
  <2>2. groove_note(pos, level) \in Sounds
    BY GrooveNoteLasts
  <2>. QED
    BY <2>1, <2>2
<1>3. CASE b \in {<<n, note(0, 50)>> : n \in TONES}
  <2>1. PICK n \in TONES : b = <<n, note(0, 50)>>
    BY <1>3
  <2>2. n \in Sounds /\ note(0, 50) \in Sounds
    BY TonesLast, NoteLasts
  <2>. QED
    BY <2>1, <2>2
<1>4. CASE b = <<note(880, 100), note(0, 50), note(0, 50),
                 note(1046, 150), note(0, 50)>>
  <2>. DEFINE x == note(880, 100)
              y == note(0, 50)
              z == note(1046, 150)
  <2>1. x \in Sounds /\ y \in Sounds /\ z \in Sounds
    BY NoteLasts
  <2>2. b = <<x, y, y, z, y>>
    BY <1>4
  <2>. HIDE DEF x, y, z
  <2>. QED
    BY <2>1, <2>2
<1>5. CASE b \in {Gapped(state_sig(state)) : state \in STATES}
  <2>1. PICK state \in STATES : b = Gapped(state_sig(state))
    BY <1>5
  <2>. DEFINE sig == state_sig(state)
  <2>2. sig \in Seq(Nat) /\ Len(sig) \in 1..3
    BY SignatureIs
  <2>3. b = Gapped(sig)
    BY <2>1
  <2>. HIDE DEF sig
  <2>4. (IF 3 <= Len(sig) THEN 3 ELSE Len(sig)) = Len(sig)
    BY <2>2, AtMostThree
  <2>5. b = Part(sig, 3)
    BY <2>3, <2>4 DEF Part, Gapped
  <2>. QED
    BY <2>2, <2>5, PartIs
<1>. QED
  BY <1>1, <1>2, <1>3, <1>4, <1>5 DEF Asked

-----------------------------------------------------------------------------
(***************************************************************************)
(* The ring and the speaker implement the player: what a command asks for, *)
(* and what audio_tick does with the note at the head.                     *)
(***************************************************************************)
Lasting == notes \in Seq(Sounds)

LEMMA AsksForIt ==
  ASSUME NEW b \in Asked, Holding(ring', Contents(ring), b),
         UNCHANGED <<playing, speaker>>
  PROVE  Abstract!Next
<1>1. notes' = Kept(notes \o b)
  BY DEF Holding, notes, Contents
<1>2. Abstract!Ask(b)
  BY <1>1 DEF Abstract!Ask, Kept
<1>. QED
  BY <1>2 DEF Abstract!Next

LEMMA ReplacesIt ==
  ASSUME NEW b \in Asked, NEW r, Holding(r, <<>>, b), q_clear(r)
  PROVE  Abstract!Next
<1>1. b \in Seq(Sounds)
  BY AskedLasts
<1>2. <<>> \o b = b
  BY <1>1
<1>3. ring' = r /\ playing' = FALSE /\ speaker' = 0
  BY DEF q_clear
<1>4. Contents(r) = Kept(b)
  BY <1>2 DEF Holding
<1>5. notes' = Kept(b)
  BY <1>3, <1>4 DEF notes, Contents
<1>6. Abstract!Replace(b)
  BY <1>3, <1>5 DEF Abstract!Replace, Kept
<1>. QED
  BY <1>6 DEF Abstract!Next

LEMMA ToneImplements ==
  ASSUME IInv, NEW n \in TONES, cmd_tone(n)
  PROVE  Abstract!Next
<1>. DEFINE e == <<>>
            s == Contents(ring)
<1>1. ring \in Rings
  BY DEF IInv, TypeOK
<1>2. n \in Notes /\ note(0, 50) \in Notes
  BY TonesType, NoteType
<1>3. Holding(ring, s, e) /\ s \in Seq(Notes) /\ e \in Seq(Notes)
  BY <1>1, HoldsItself
<1>4. Append(Append(e, n), note(0, 50)) = <<n, note(0, 50)>>
  <2>. DEFINE g == note(0, 50)
  <2>1. g \in Notes
    BY <1>2
  <2>. HIDE DEF g
  <2>2. Append(Append(<<>>, n), g) = <<n, g>>
    BY <1>2, <2>1, Zenon, TwoNotes
  <2>. QED
    BY <2>2 DEF g
<1>. HIDE DEF e, s
<1>5. Holding(audio_tone(ring, n), s, Append(Append(e, n), note(0, 50)))
  BY <1>2, <1>3, ToneHolding
<1>6. Holding(ring', s, <<n, note(0, 50)>>) /\ UNCHANGED <<playing, speaker>>
  BY <1>4, <1>5 DEF cmd_tone
<1>7. <<n, note(0, 50)>> \in Asked
  BY DEF Asked
<1>. QED
  BY <1>6, <1>7, AsksForIt DEF s

LEMMA BeepImplements ==
  ASSUME IInv, cmd_beep
  PROVE  Abstract!Next
<1>. DEFINE s == Contents(ring)
<1>1. Holding(ring, s, <<>>) /\ s \in Seq(Notes)
  BY HoldsItself DEF IInv, TypeOK
<1>. HIDE DEF s
<1>2. Holding(ring', s, beep_notes) /\ UNCHANGED <<playing, speaker>>
  BY <1>1, BeepHolding DEF cmd_beep
<1>3. beep_notes \in Asked
  BY DEF Asked, beep_notes
<1>. QED
  BY <1>2, <1>3, AsksForIt DEF s

LEMMA SchemaImplements ==
  ASSUME IInv, NEW state \in STATES, cmd_schema_audio(state)
  PROVE  Abstract!Next
<1>. DEFINE sig == state_sig(state)
            c == cleared(ring)
            r == sig_note(sig_note(sig_note(c, sig, 1), sig, 2), sig, 3)
<1>1. Holding(c, <<>>, <<>>)
  BY HoldsItself DEF IInv, TypeOK
<1>2. q_clear(r)
  BY DEF cmd_schema_audio, audio_play_schema
<1>. HIDE DEF c
<1>3. Holding(r, <<>>, Gapped(sig))
  BY <1>1, SignatureHolding
<1>4. Gapped(sig) \in Asked
  BY DEF Asked
<1>. HIDE DEF r, sig
<1>. QED
  BY <1>2, <1>3, <1>4, ReplacesIt

(* The groove starts, or goes on, with one of its notes.                   *)
LEMMA GrooveHolding ==
  ASSUME NEW r, NEW s \in Seq(Notes), Holding(r, s, <<>>),
         NEW pos \in 0..GROOVE_LEN-1, NEW level \in 0..3
  PROVE  /\ Holding(q_push[r][groove_note(pos, level)], s,
                    <<groove_note(pos, level)>>)
         /\ <<groove_note(pos, level)>> \in Asked
<1>. DEFINE n == groove_note(pos, level)
            e == <<>>
<1>1. n \in Notes
  BY GrooveNoteType
<1>2. <<n>> \in Asked
  BY DEF Asked, groove_notes
<1>3. Append(e, n) = <<n>>
  OBVIOUS
<1>4. e \in Seq(Notes) /\ Holding(r, s, e)
  OBVIOUS
<1>. HIDE DEF n, e
<1>5. Holding(q_push[r][n], s, Append(e, n))
  BY <1>1, <1>4, PushHolding
<1>6. Holding(q_push[r][n], s, <<n>>) /\ <<n>> \in Asked
  BY <1>2, <1>3, <1>5
<1>. QED
  BY <1>6 DEF n

LEMMA GrooveImplements ==
  ASSUME IInv, NEW level \in LEVELS, cmd_groove(level)
  PROVE  Abstract!Next
<1>. DEFINE c == cleared(ring)
            r == q_push[c][groove_note(0, level)]
            e == <<>>
<1>1. 0 \in 0..GROOVE_LEN-1 /\ level \in 0..3
  BY AudioAssumption
<1>2. Holding(c, e, <<>>) /\ e \in Seq(Notes)
  BY HoldsItself DEF IInv, TypeOK
<1>3. q_clear(r)
  BY DEF cmd_groove
<1>. HIDE DEF c, e
<1>4. Holding(r, e, <<groove_note(0, level)>>) /\ <<groove_note(0, level)>> \in Asked
  BY <1>1, <1>2, GrooveHolding
<1>. HIDE DEF r
<1>. QED
  BY <1>3, <1>4, ReplacesIt DEF e

LEMMA StopImplements ==
  ASSUME IInv, cmd_stopgroove
  PROVE  Abstract!Next
<1>. DEFINE c == cleared(ring)
<1>1. Holding(c, <<>>, <<>>) /\ q_clear(c)
  BY HoldsItself DEF IInv, TypeOK, cmd_stopgroove
<1>2. <<>> \in Asked
  BY DEF Asked
<1>. HIDE DEF c
<1>. QED
  BY <1>1, <1>2, ReplacesIt

LEMMA HeadIs ==
  ASSUME NEW r \in Rings, ~ empty(r)
  PROVE  Contents(r) # <<>> /\ Head(Contents(r)) = r.q[r.head]
<1>1. QSIZE \in Nat /\ QSIZE >= 2
  BY AudioAssumption
<1>. DEFINE c == Contents(r)
            w == Waiting(r)
<1>2. /\ c \in Seq(Notes) /\ Len(c) = w /\ w \in 0..QSIZE-1 /\ w # 0
      /\ \A i \in 1..w : c[i] = r.q[Slot(r, i)]
  BY ContentsIs, WaitingIs
<1>3. Slot(r, 1) = r.head
  <2>1. r.head \in 0..QSIZE-1 /\ r.head + 1 - 1 = r.head
    BY <1>1 DEF Rings
  <2>2. r.head % QSIZE = r.head
    <3>1. r.head \in Int /\ r.head \in 0..QSIZE-1
      BY <1>1, <2>1
    <3>. QED
      BY <3>1, Wraps, Zenon
  <2>. QED
    BY <2>1, <2>2 DEF Slot
<1>. HIDE DEF c, w
<1>4. 1 \in 1..w /\ c # <<>>
  BY <1>1, <1>2
<1>5. Head(c) = c[1]
  BY <1>2, <1>4
<1>. QED
  BY <1>2, <1>3, <1>4, <1>5 DEF c

LEMMA EmptyIs ==
  ASSUME NEW r \in Rings, empty(r)
  PROVE  Contents(r) = <<>>
<1>1. Contents(r) \in Seq(Notes) /\ Len(Contents(r)) = 0
  BY ContentsIs, WaitingIs
<1>. QED
  BY <1>1

(* What an empty ring holds when a note of the groove was queued on it     *)
LEMMA QueuedOnEmpty ==
  ASSUME NEW r \in Rings, empty(r), corrupt_level \in 0..3,
         NEW pos \in 0..GROOVE_LEN-1
  PROVE  \E b \in Asked : Contents(groove_queued(r, pos)) = Kept(b)
<1>. DEFINE b == <<groove_note(pos, corrupt_level)>>
            e == <<>>
<1>1. Contents(r) = <<>>
  BY EmptyIs
<1>2. Holding(r, e, <<>>) /\ e \in Seq(Notes)
  BY <1>1, HoldsItself
<1>. HIDE DEF e
<1>3. Holding(q_push[r][groove_note(pos, corrupt_level)], e, b) /\ b \in Asked
  BY <1>2, GrooveHolding
<1>4. b \in Seq(Sounds)
  BY <1>3, AskedLasts
<1>. HIDE DEF b
<1>5. e \o b = b
  BY <1>4 DEF e
<1>. QED
  BY <1>3, <1>5 DEF groove_queued, Holding

(* A note that starts, or goes on                                          *)
LEMMA SoundImplements ==
  ASSUME IInv, NEW ticks \in 0..TICKS-1, tick_sound(ticks)
  PROVE  Abstract!Next \/ UNCHANGED <<notes, playing, speaker>>
<1>1. /\ ring \in Rings /\ groove_pos \in 0..GROOVE_LEN-1 /\ corrupt_level \in 0..3
  BY DEF IInv, TypeOK
<1>. DEFINE r == tick_ring
<1>2. r \in Rings /\ ~ empty(r) /\ (playing => r = ring)
  BY TickRing
<1>3. /\ ring' = r /\ playing' = TRUE
      /\ speaker' = IF playing THEN speaker ELSE r.q[r.head].freq
  BY DEF tick_sound
<1>4. Contents(r) # <<>> /\ Head(Contents(r)) = r.q[r.head]
  <2>. HIDE DEF r
  <2>. QED
    BY <1>2, HeadIs
<1>5. notes' = Contents(r)
  BY <1>3 DEF notes, Contents
<1>6. CASE playing
  <2>1. notes' = notes
    BY <1>2, <1>5, <1>6 DEF notes
  <2>2. playing' = playing
    <3>1. playing = TRUE
      BY <1>6 DEF IInv, TypeOK
    <3>. QED
      BY <1>3, <3>1
  <2>. QED
    BY <1>3, <1>6, <2>1, <2>2
<1>7. CASE ~ playing
  <2>1. speaker' = Head(notes').freq /\ notes' # <<>>
    BY <1>3, <1>4, <1>5, <1>7
  <2>2. \/ notes # <<>> /\ notes' = notes
        \/ notes = <<>> /\ \E burst \in Asked : notes' = Kept(burst)
    <3>1. CASE empty(ring)
      <4>1. r = groove_queued(ring, groove_pos)
        BY <1>7, <3>1 DEF tick_ring, Starved
      <4>2. \E burst \in Asked : Contents(groove_queued(ring, groove_pos)) = Kept(burst)
        BY <1>1, <3>1, QueuedOnEmpty
      <4>3. notes = <<>>
        BY <1>1, <3>1, EmptyIs DEF notes
      <4>. QED
        BY <1>5, <4>1, <4>2, <4>3
    <3>2. CASE ~ empty(ring)
      <4>1. r = ring
        BY <3>2 DEF tick_ring, Starved
      <4>. QED
        BY <1>4, <1>5, <4>1 DEF notes
    <3>. QED
      BY <3>1, <3>2
  <2>3. Abstract!Start
    BY <1>3, <1>7, <2>1, <2>2 DEF Abstract!Start, Kept
  <2>. QED
    BY <2>3 DEF Abstract!Next
<1>. QED
  BY <1>6, <1>7

(* A note that comes to its end was played.                                *)
LEMMA FinishImplements ==
  ASSUME IInv, Lasting, NEW ticks \in 0..TICKS-1, tick_finish(ticks)
  PROVE  Abstract!Next
<1>1. /\ ring \in Rings /\ groove_pos \in 0..GROOVE_LEN-1 /\ corrupt_level \in 0..3
  BY DEF IInv, TypeOK
<1>. DEFINE r == tick_ring
            goes_on == groove_active /\ empty(popped(r))
<1>2. /\ r \in Rings /\ ~ empty(r) /\ (playing => r = ring)
      /\ tick_pos \in 0..GROOVE_LEN-1
  BY TickRing
<1>3. /\ ring' = IF goes_on THEN groove_queued(popped(r), tick_pos) ELSE popped(r)
      /\ playing' = FALSE /\ speaker' = 0
      /\ elapsed(ticks, IF playing THEN note_start_tick ELSE ticks)
           >= r.q[r.head].dur
  BY DEF tick_finish
<1>4. playing
  <2>. SUFFICES ASSUME ~ playing PROVE FALSE
    OBVIOUS
  <2>1. elapsed(ticks, ticks) = 0
    <3>1. TICKS \in Nat \ {0}
      BY AudioAssumption
    <3>2. ticks - ticks = 0
      BY <3>1
    <3>3. 0 % TICKS = 0
      BY <3>1
    <3>. QED
      BY <3>2, <3>3 DEF elapsed
  <2>2. Contents(r) \in Seq(Sounds)
    <3>1. CASE empty(ring)
      <4>1. r = groove_queued(ring, groove_pos)
        BY <3>1 DEF tick_ring, Starved
      <4>2. PICK b \in Asked : Contents(groove_queued(ring, groove_pos)) = Kept(b)
        BY <1>1, <3>1, QueuedOnEmpty
      <4>3. b \in Seq(Sounds)
        BY AskedLasts
      <4>4. Kept(b) \in Seq(Sounds)
        BY <4>3, KeptIs
      <4>. QED
        BY <4>1, <4>2, <4>4
    <3>2. CASE ~ empty(ring)
      BY <3>2 DEF tick_ring, Starved, Lasting, notes
    <3>. QED
      BY <3>1, <3>2
  <2>. HIDE DEF r
  <2>3. Contents(r) # <<>> /\ Head(Contents(r)) = r.q[r.head]
    BY <1>2, HeadIs
  <2>4. Head(Contents(r)) \in Sounds
    <3>. DEFINE c == Contents(r)
    <3>1. c \in Seq(Sounds) /\ c # <<>>
      BY <2>2, <2>3
    <3>. HIDE DEF c
    <3>2. Head(c) \in Sounds
      BY <3>1
    <3>. QED
      BY <3>2 DEF c
  <2>5. r.q[r.head].dur \in Nat \ {0}
    BY <2>3, <2>4 DEF Sounds
  <2>6. 0 >= r.q[r.head].dur
    BY <1>3, <2>1
  <2>. QED
    BY <2>5, <2>6
<1>5. r = ring /\ ~ empty(ring)
  BY <1>2, <1>4
<1>6. Contents(popped(ring)) = Tail(notes)
  BY <1>1, <1>5, PoppedIsTail DEF notes
<1>7. CASE goes_on
  <2>1. popped(ring) \in Rings /\ empty(popped(ring))
    BY <1>1, <1>5, <1>7, PoppedType
  <2>2. Tail(notes) = <<>>
    BY <1>6, <2>1, EmptyIs
  <2>3. PICK b \in Asked :
          Contents(groove_queued(popped(ring), tick_pos)) = Kept(b)
    BY <1>1, <1>2, <2>1, QueuedOnEmpty
  <2>4. notes' = Kept(b)
    BY <1>3, <1>5, <1>7, <2>3 DEF notes, Contents
  <2>5. Abstract!Finish
    BY <1>3, <1>4, <2>2, <2>4 DEF Abstract!Finish, Kept
  <2>. QED
    BY <2>5 DEF Abstract!Next
<1>8. CASE ~ goes_on
  <2>1. ring' = popped(ring)
    BY <1>3, <1>5, <1>8
  <2>2. notes' = Contents(popped(ring))
    BY <2>1 DEF notes, Contents
  <2>3. Abstract!Finish
    BY <1>3, <1>4, <1>6, <2>2 DEF Abstract!Finish
  <2>. QED
    BY <2>3 DEF Abstract!Next
<1>. QED
  BY <1>7, <1>8

LEMMA TickImplements ==
  ASSUME IInv, Lasting, NEW ticks \in 0..TICKS-1, audio_tick(ticks)
  PROVE  Abstract!Next \/ UNCHANGED <<notes, playing, speaker>>
<1>1. CASE tick_idle(ticks)
  BY <1>1 DEF tick_idle, notes, Contents
<1>. QED
  BY <1>1, SoundImplements, FinishImplements DEF audio_tick

LEMMA StepImplements ==
  ASSUME IInv, Lasting, [Next]_vars
  PROVE  [Abstract!Next]_(Abstract!vars)
<1>1. pit_ticks \in 0..TICKS-1 /\ next_tick \in 0..TICKS-1
  <2>1. pit_ticks \in 0..TICKS-1
    BY DEF IInv, TypeOK
  <2>. QED
    BY <2>1, AudioAssumption DEF next_tick
<1>2. ASSUME NEW n \in TONES, cmd_tone(n) PROVE Abstract!Next
  BY <1>2, ToneImplements
<1>3. CASE cmd_beep
  BY <1>3, BeepImplements
<1>4. ASSUME NEW state \in STATES, cmd_schema_audio(state) PROVE Abstract!Next
  BY <1>4, SchemaImplements
<1>5. ASSUME NEW level \in LEVELS, cmd_groove(level) PROVE Abstract!Next
  BY <1>5, GrooveImplements
<1>6. CASE cmd_stopgroove
  BY <1>6, StopImplements
<1>7. CASE Tick
  BY <1>1, <1>7, TickImplements DEF Tick, Abstract!vars
<1>8. CASE Again
  BY <1>1, <1>8, TickImplements DEF Again, Abstract!vars
<1>9. CASE UNCHANGED vars
  BY <1>9 DEF vars, Abstract!vars, notes, Contents
<1>. QED
  BY <1>2, <1>3, <1>4, <1>5, <1>6, <1>7, <1>8, <1>9 DEF Next

(* The player only ever keeps notes that were asked for, and they last.    *)
LEMMA StillLasting ==
  ASSUME IInv, Lasting, [Abstract!Next]_(Abstract!vars)
  PROVE  Lasting'
<1>1. notes \in Seq(Sounds)
  BY DEF Lasting
<1>2. \A b \in Asked : Kept(b) \in Seq(Sounds) /\ Kept(notes \o b) \in Seq(Sounds)
  <2>. SUFFICES ASSUME NEW b \in Asked
       PROVE  Kept(b) \in Seq(Sounds) /\ Kept(notes \o b) \in Seq(Sounds)
    OBVIOUS
  <2>1. b \in Seq(Sounds)
    BY AskedLasts
  <2>2. notes \o b \in Seq(Sounds)
    BY <1>1, <2>1
  <2>. QED
    BY <2>1, <2>2, KeptIs
<1>3. ASSUME NEW b \in Asked, Abstract!Ask(b) \/ Abstract!Replace(b)
      PROVE  Lasting'
  BY <1>2, <1>3 DEF Abstract!Ask, Abstract!Replace, Kept, Lasting
<1>4. CASE Abstract!Start
  BY <1>1, <1>2, <1>4 DEF Abstract!Start, Kept, Lasting
<1>5. CASE Abstract!Finish
  <2>1. notes # <<>>
    <3>1. ring \in Rings /\ ~ empty(ring)
      BY <1>5 DEF IInv, TypeOK, SpeakerFollowsNote, Abstract!Finish
    <3>. QED
      BY <3>1, HeadIs DEF notes
  <2>2. Tail(notes) \in Seq(Sounds)
    BY <1>1, <2>1
  <2>. QED
    BY <1>2, <1>5, <2>2 DEF Abstract!Finish, Kept, Lasting
<1>6. CASE UNCHANGED Abstract!vars
  BY <1>1, <1>6 DEF Abstract!vars, Lasting
<1>. QED
  BY <1>3, <1>4, <1>5, <1>6 DEF Abstract!Next

LEMMA InitImplements ==
  ASSUME Init
  PROVE  Abstract!Init /\ Lasting
<1>1. ring \in Rings /\ empty(ring)
  BY InitHolds DEF IInv, TypeOK, Init, empty
<1>2. notes = <<>>
  BY <1>1, EmptyIs DEF notes
<1>. QED
  BY <1>2 DEF Init, Abstract!Init, Lasting

(* Every behaviour of the ring and the speaker is one of the player's:     *)
(* notes are played one at a time and in order, the speaker sounds only    *)
(* the note that is played, and what is asked for is cut only where the    *)
(* ring is full.                                                           *)
THEOREM AudioIsPlayer == Spec => ImplementsPlayer
<1>1. Init => Abstract!Init /\ IInv /\ Lasting
  BY InitHolds, InitImplements
<1>2. IInv /\ Lasting /\ [Next]_vars
        => /\ [Abstract!Next]_(Abstract!vars)
           /\ IInv' /\ Lasting'
  BY StepImplements, StepHolds, StillLasting
<1>. QED
  BY <1>1, <1>2, PTL DEF Spec, ImplementsPlayer, Abstract!Spec
=============================================================================
