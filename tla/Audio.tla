------------------------------- MODULE Audio ---------------------------------
(***************************************************************************)
(* The sound of kernel/audio.c: a ring of notes that the shell's commands  *)
(* fill and audio_tick, called once in every turn of the shell's loop,     *)
(* empties into the PC speaker, and the groove, a motif that goes on while *)
(* nothing else waits.                                                     *)
(*                                                                         *)
(* The ticks are those timer_poll counts: at most one for each call        *)
(* (see Timer), in a word that wraps.                                      *)
(***************************************************************************)
EXTENDS Schema, Integers, Sequences

CONSTANTS
  QSIZE,         (* slots of the ring, 64 in the code                      *)
  TICKS,         (* ticks are counted modulo it, 2^32 in the code          *)
  UNIT,          (* abstraction: milliseconds to a tick, 1 in the code     *)
  GROOVE_LEN,    (* notes of the groove, 8 in the code                     *)
  TONES,         (* what `tone` is typed with: [freq, dur] records         *)
  STATES,        (* states of the processes `sig` is typed for             *)
  LEVELS         (* levels of corruption `groove` finds                    *)

ASSUME AudioAssumption ==
  /\ QSIZE \in Nat \ {0, 1}
  /\ TICKS \in Nat \ {0}
  /\ UNIT \in Nat \ {0}
  /\ GROOVE_LEN \in 1..8
  /\ TONES \subseteq [freq : Nat \ {0}, dur : Nat \ {0}]
  /\ STATES \subseteq States
  /\ LEVELS \subseteq 0..3

Notes == [freq : Nat, dur : Nat]

(* ms milliseconds in ticks                                                *)
note(freq, ms) == [freq |-> freq, dur |-> (ms + UNIT - 1) \div UNIT]

-----------------------------------------------------------------------------
(***************************************************************************)
(* The ring: slots that are written at tail and read at head, one of which *)
(* always stays unused.                                                    *)
(***************************************************************************)
Rings == [q : [0..QSIZE-1 -> Notes], head : 0..QSIZE-1, tail : 0..QSIZE-1]

empty(r) == r.head = r.tail

(* Mutant of q_push: the last slot is used too.                            *)
q_push_over ==
  [r \in Rings |-> [n \in Notes |->
     [r EXCEPT !.q = [r.q EXCEPT ![r.tail] = n],
               !.tail = (r.tail + 1) % QSIZE]]]

(* A note that finds the ring full is dropped.                             *)
q_push ==
  [r \in Rings |-> [n \in Notes |->
     IF (r.tail + 1) % QSIZE = r.head
     THEN r
     ELSE [r EXCEPT !.q = [r.q EXCEPT ![r.tail] = n],
                    !.tail = (r.tail + 1) % QSIZE]]]

cleared(r) == [r EXCEPT !.head = 0, !.tail = 0]

popped(r) == [r EXCEPT !.head = (r.head + 1) % QSIZE]

(* The notes that wait in a ring, in order                                 *)
Contents(r) ==
  [i \in 1..(r.tail - r.head) % QSIZE |-> r.q[(r.head + i - 1) % QSIZE]]

-----------------------------------------------------------------------------
(***************************************************************************)
(* The groove and the signatures of the states.                            *)
(***************************************************************************)
groove_freq == <<392, 440, 494, 523, 494, 440, 392, 330>>
groove_dur  == <<150, 150, 150, 300, 150, 150, 300, 300>>
wrong_freq  == <<370, 415, 466, 494, 523, 415, 370, 311>>

(* The note at a position of the groove: sharp and late, a wrong one and   *)
(* short, or none, as the corruption has it                                *)
groove_note(pos, level) ==
  LET f == groove_freq[pos + 1]
      d == groove_dur[pos + 1]
  IN  CASE level = 1 -> note(f + f \div 16, d + d \div 4)
        [] level = 2 -> note(wrong_freq[pos + 1], d \div 2)
        [] level = 3 -> note(0, d)
        [] OTHER     -> note(f, d)

state_sig(state) ==
  CASE state \in {STATE_FUNDAMENTAL, STATE_PERFECT} -> <<523, 659, 784>>
    [] state = STATE_FULL_TRUST  -> <<523, 784>>
    [] state = STATE_NEW_PROCESS -> <<330, 392>>
    [] state = STATE_RECOVERY    -> <<415, 494>>
    [] state = STATE_FRICTION    -> <<466, 440, 466>>
    [] state = STATE_EXCISED     -> <<220>>
    [] OTHER                     -> <<440>>

-----------------------------------------------------------------------------
VARIABLES
  ring,              (* q, q_head and q_tail                               *)
  playing,           (* the note at the head is played                     *)
  note_start_tick,   (* when it was started                                *)
  groove_active,
  groove_pos,        (* the next note of the groove                        *)
  corrupt_level,
  pit_ticks,         (* what timer_poll returned last                      *)
  speaker            (* the frequency the PC speaker sounds, 0 for none    *)

groove == <<groove_active, groove_pos, corrupt_level>>
clock  == <<pit_ticks, note_start_tick>>
vars   == <<ring, playing, speaker, groove, clock>>

TypeOK ==
  /\ ring \in Rings
  /\ playing \in BOOLEAN
  /\ note_start_tick \in 0..TICKS-1
  /\ groove_active \in BOOLEAN
  /\ groove_pos \in 0..GROOVE_LEN-1
  /\ corrupt_level \in 0..3
  /\ pit_ticks \in 0..TICKS-1
  /\ speaker \in Nat

(* timer_init and audio_init, as kernel_main calls them                    *)
Init ==
  /\ ring = [q    |-> [i \in 0..QSIZE-1 |-> [freq |-> 0, dur |-> 0]],
             head |-> 0, tail |-> 0]
  /\ playing = FALSE
  /\ note_start_tick = 0
  /\ groove_active = FALSE
  /\ groove_pos = 0
  /\ corrupt_level = 0
  /\ pit_ticks = 0
  /\ speaker = 0

next_pos(pos) == (pos + 1) % GROOVE_LEN

(* groove_queue_next, on a ring and a position                             *)
groove_queued(r, pos) == q_push[r][groove_note(pos, corrupt_level)]

-----------------------------------------------------------------------------
(***************************************************************************)
(* The commands of the shell that reach the audio.                         *)
(***************************************************************************)
audio_tone(r, n)      == q_push[q_push[r][n]][note(0, 50)]
audio_silence(r, ms)  == q_push[r][note(0, ms)]

cmd_tone(n) ==
  /\ ring' = audio_tone(ring, n)
  /\ UNCHANGED <<playing, speaker, groove, clock>>

cmd_beep ==
  /\ ring' = audio_tone(audio_silence(audio_tone(ring, note(880, 100)), 50),
                        note(1046, 150))
  /\ UNCHANGED <<playing, speaker, groove, clock>>

(* Mutant of q_clear: the speaker and the note that sounds are forgotten.  *)
q_clear_ring_only(r) == ring' = r /\ UNCHANGED <<playing, speaker>>

(* q_clear, followed by what fills the ring again                          *)
q_clear(r) == ring' = r /\ playing' = FALSE /\ speaker' = 0

(* The notes of a signature are three at most.                             *)
sig_note(r, sig, i) ==
  IF i <= Len(sig) THEN q_push[q_push[r][note(sig[i], 200)]][note(0, 60)]
                   ELSE r

audio_play_schema(state) ==
  LET sig == state_sig(state)
  IN  q_clear(sig_note(sig_note(sig_note(cleared(ring), sig, 1), sig, 2),
                       sig, 3))

cmd_schema_audio(state) ==
  /\ audio_play_schema(state)
  /\ UNCHANGED <<groove, clock>>

(* audio_set_corruption and audio_start_groove                             *)
cmd_groove(level) ==
  /\ corrupt_level' = level
  /\ groove_active' = TRUE
  /\ groove_pos' = next_pos(0)
  /\ q_clear(q_push[cleared(ring)][groove_note(0, level)])
  /\ UNCHANGED clock

cmd_stopgroove ==
  /\ groove_active' = FALSE
  /\ q_clear(cleared(ring))
  /\ UNCHANGED <<groove_pos, corrupt_level, clock>>

-----------------------------------------------------------------------------
(* Mutant of elapsed: a difference of signed numbers.                      *)
elapsed_signed(ticks, start) == ticks - start

elapsed(ticks, start) == (ticks - start) % TICKS

(* audio_tick, when timer_poll returns ticks.  Nothing waits and the groove*)
(* is off:                                                                 *)
tick_idle(ticks) ==
  /\ empty(ring) /\ ~ playing /\ ~ groove_active
  /\ pit_ticks' = ticks
  /\ UNCHANGED <<ring, playing, speaker, groove, note_start_tick>>

(* The ring and the position audio_tick goes on with: the next note of the *)
(* groove is queued if nothing waits.                                      *)
Starved == empty(ring) /\ ~ playing
tick_ring == IF Starved THEN groove_queued(ring, groove_pos) ELSE ring
tick_pos  == IF Starved THEN next_pos(groove_pos) ELSE groove_pos

(* A note starts, or goes on.                                              *)
tick_sound(ticks) ==
  LET r     == tick_ring
      start == IF playing THEN note_start_tick ELSE ticks
      n     == r.q[r.head]
  IN  /\ ~ Starved \/ groove_active
      /\ elapsed(ticks, start) < n.dur
      /\ ring' = r
      /\ groove_pos' = tick_pos
      /\ playing' = TRUE
      /\ note_start_tick' = start
      /\ speaker' = IF playing THEN speaker ELSE n.freq
      /\ pit_ticks' = ticks
      /\ UNCHANGED <<groove_active, corrupt_level>>

(* A note that has been played for its time is taken off the ring, and the *)
(* groove goes on.                                                         *)
tick_finish(ticks) ==
  LET r       == tick_ring
      start   == IF playing THEN note_start_tick ELSE ticks
      goes_on == groove_active /\ empty(popped(r))
  IN  /\ ~ Starved \/ groove_active
      /\ elapsed(ticks, start) >= r.q[r.head].dur
      /\ ring' = IF goes_on THEN groove_queued(popped(r), tick_pos)
                            ELSE popped(r)
      /\ groove_pos' = IF goes_on THEN next_pos(tick_pos) ELSE tick_pos
      /\ playing' = FALSE
      /\ note_start_tick' = start
      /\ speaker' = 0
      /\ pit_ticks' = ticks
      /\ UNCHANGED <<groove_active, corrupt_level>>

audio_tick(ticks) ==
  tick_idle(ticks) \/ tick_sound(ticks) \/ tick_finish(ticks)

(* A turn of the shell's loop in which the timer advances, and one in      *)
(* which it does not                                                       *)
next_tick == (pit_ticks + 1) % TICKS

Tick  == audio_tick(next_tick)
Again == audio_tick(pit_ticks)

Next ==
  \/ \E n \in TONES : cmd_tone(n)
  \/ cmd_beep
  \/ \E state \in STATES : cmd_schema_audio(state)
  \/ \E level \in LEVELS : cmd_groove(level)
  \/ cmd_stopgroove
  \/ Tick
  \/ Again

(* The loop of the shell never waits, and the timer goes on counting.      *)
Spec == Init /\ [][Next]_vars /\ WF_vars(Tick)

-----------------------------------------------------------------------------
(***************************************************************************)
(* Properties.                                                             *)
(***************************************************************************)
(* The speaker sounds the note at the head of the ring, as long as it has  *)
(* time left, and nothing when no note is played: no tone outlives its     *)
(* note, whatever command comes while it sounds.                           *)
SpeakerFollowsNote ==
  IF playing
  THEN /\ ~ empty(ring)
       /\ speaker = ring.q[ring.head].freq
       /\ elapsed(pit_ticks, note_start_tick) < ring.q[ring.head].dur
  ELSE speaker = 0

(* The ring and the speaker implement a player with a queue.               *)
groove_notes ==
  {<<groove_note(pos, level)>> :
     pos \in 0..GROOVE_LEN-1, level \in 0..3}

Gapped(sig) ==
  [i \in 1..2 * Len(sig) |->
     IF i % 2 = 1 THEN note(sig[(i + 1) \div 2], 200) ELSE note(0, 60)]

Asked ==
  {<<>>} \cup groove_notes
  \cup {<<n, note(0, 50)>> : n \in TONES}
  \cup {<<note(880, 100), note(0, 50), note(0, 50),
          note(1046, 150), note(0, 50)>>}
  \cup {Gapped(state_sig(state)) : state \in STATES}

notes == Contents(ring)

Abstract == INSTANCE Player WITH CAPACITY <- QSIZE - 1, Bursts <- Asked

ImplementsPlayer == Abstract!Spec

(* A tone that sounds comes to its end, whatever is typed meanwhile.       *)
ToneEnds == speaker # 0 ~> speaker = 0

-----------------------------------------------------------------------------
(***************************************************************************)
(* What the texts of the program say, and the program does not do.         *)
(***************************************************************************)
(* "direct play - blocks via timer_wait_ms": when audio_tone returns, the  *)
(* tone has been played.                                                   *)
ToneBlocks == [][\A n \in TONES : cmd_tone(n) => empty(ring')]_vars

(* "tone ... queued": wherever the command is typed, its tone waits after  *)
(* what waited before.                                                     *)
ToneIsQueued ==
  \A n \in TONES :
    LET before == Len(Contents(ring))
        after  == Contents(audio_tone(ring, n))
    IN  Len(after) > before /\ after[before + 1] = n
=============================================================================
