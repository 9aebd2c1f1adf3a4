------------------------------- MODULE Buzzer -------------------------------
(* A buzzer of drivers/buzzer/buzzer-pwm.c: tasks queue beeps in a queue of *)
(* lib/libx/queue.c, each call preempted between its steps, and a timer     *)
(* plays them from its interrupt.  Time is counted in milliseconds.  And    *)
(* the ringtones that are turned into such beeps.                           *)
EXTENDS Integers, Sequences, SequencesExt, FiniteSets

CONSTANTS
    Tasks, Setters,             \* the tasks that beep, and those that set a frequency
    Powers,                     \* the task that suspends and resumes, or none
    Frequencies, Millis,        \* what a beep is called with
    MaxBeeps, MaxCalls,         \* bounds on the beeps that are queued and on the calls
    Pairs, Values, Scales,      \* the controls of a ringtone, and the durations and octaves of a tone
    MaxPairs, MaxTones

BuzzerAssumption == Frequencies \subseteq Nat /\ Millis \subseteq Nat \ {0} /\ MaxBeeps \in Nat /\ MaxCalls \in Nat

VARIABLES
    queue,          \* pdat->queue: the numbers of the beeps
    beep,           \* the beeps so far: param, and what has become of it
    left,           \* milliseconds until pdat->timer expires
    frequency,      \* pdat->frequency
    pwm,            \* the frequency that is put out, 0 when it is disabled
    playing, heard, \* the beep that sounds, and how long it has
    pc, want, mine, \* where a task is, the frequency it sets, the beep it has pushed
    alone,          \* since a task began to clear no other has beeped or set
    suspended,
    overtaken,      \* beeps that sounded when the timer was started for the next
    crossed, raced, \* two tasks were in beep() between push and start; something else set in the midst of a set
    calls
vars == <<queue, beep, left, frequency, pwm, playing, heard, pc, want, mine, alone, suspended, overtaken, crossed, raced, calls>>

VARIABLES pairs, tones      \* a ringtone
ringtone == <<pairs, tones>>

Off == -1
Nobody == 0
All == Tasks \cup Setters \cup Powers
timer == <<left, playing, heard>>
out == <<frequency, pwm>>
seen == <<overtaken, crossed, raced>>

Init ==
    /\ queue = <<>> /\ beep = <<>> /\ left = Off /\ frequency = 0 /\ pwm = 0 /\ playing = Nobody /\ heard = 0
    /\ pc = [t \in All |-> "idle"] /\ want = [t \in All |-> 0] /\ mine = [t \in All |-> Nobody]
    /\ alone = [t \in All |-> FALSE] /\ suspended = FALSE
    /\ overtaken = {} /\ crossed = FALSE /\ raced = FALSE /\ calls = 0

Call == calls < MaxCalls /\ calls' = calls + 1
Goto(t, at) == pc' = [pc EXCEPT ![t] = at]
Setting(t) == {u \in All \ {t} : pc[u] \in {"hw", "store", "resume"}}
Disturb(t) == alone' = [u \in All |-> alone[u] /\ u = t]

\* What becomes of the beep that sounds when the next comes or silence.
Over == IF playing = Nobody THEN beep
        ELSE [beep EXCEPT ![playing].fate = IF heard < beep[playing].millisecond THEN "short" ELSE "whole"]

----------------------------------------------------------------------------
(* buzzer_pwm_beep()                                                        *)

queue_push(i) == Append(queue, i)

Push(t, f, ms) ==
    /\ pc[t] = "idle" /\ Call /\ Len(beep) < MaxBeeps
    /\ beep' = Append(beep, [frequency |-> f, millisecond |-> ms, fate |-> "queued"])
    /\ queue' = queue_push(Len(beep')) /\ mine' = [mine EXCEPT ![t] = Len(beep')]
    /\ crossed' = (crossed \/ \E u \in All \ {t} : pc[u] = "pushed")
    /\ Goto(t, "pushed") /\ Disturb(t)
    /\ UNCHANGED <<timer, out, want, suspended, overtaken, raced>>

queue_avail == Len(queue) = 1

Avail(t) ==
    /\ pc[t] = "pushed" /\ Goto(t, IF queue_avail THEN "start" ELSE "idle")
    /\ UNCHANGED <<queue, beep, timer, out, want, mine, alone, suspended, seen, calls>>

Start(t) ==
    /\ pc[t] = "start" /\ left' = 1 /\ Goto(t, "idle")
    /\ overtaken' = IF playing # Nobody /\ (beep[mine[t]].fate # "queued" \/ Head(queue) = mine[t])
                    THEN overtaken \cup {playing} ELSE overtaken
    /\ UNCHANGED <<queue, beep, playing, heard, out, want, mine, alone, suspended, crossed, raced, calls>>

\* Frequency and time 0: clear and stop, in three steps and those of a set.
timer_cancel(t) ==
    /\ pc[t] = "idle" /\ Call /\ left' = Off /\ playing' = Nobody /\ heard' = 0
    /\ beep' = IF playing = Nobody THEN beep ELSE [beep EXCEPT ![playing].fate = "dropped"]
    /\ Goto(t, "clear") /\ alone' = [u \in All |-> u = t /\ \A v \in All \ {t} : pc[v] = "idle"]
    /\ UNCHANGED <<queue, out, want, mine, suspended, seen>>
queue_clear == <<>>
Clear(t) ==
    /\ pc[t] = "clear" /\ queue' = (IF queue = <<>> THEN <<>> ELSE queue_clear)
    /\ beep' = [i \in DOMAIN beep |-> IF i \in {queue[k] : k \in DOMAIN queue} \ {queue'[k] : k \in DOMAIN queue'}
                                      THEN [beep[i] EXCEPT !.fate = "dropped"] ELSE beep[i]]
    /\ want' = [want EXCEPT ![t] = 0] /\ Goto(t, "test")
    /\ UNCHANGED <<timer, out, mine, alone, suspended, seen, calls>>
Stopped(t) ==
    /\ pc[t] = "set" /\ t \in Tasks /\ Goto(t, "idle") /\ alone' = [alone EXCEPT ![t] = FALSE]
    /\ UNCHANGED <<queue, beep, timer, out, want, mine, suspended, seen, calls>>

----------------------------------------------------------------------------
(* buzzer_pwm_set(): the test, the hardware, the field                      *)

buzzer_set_frequency(t, f) ==
    /\ pc[t] = "idle" /\ Call /\ want' = [want EXCEPT ![t] = f] /\ Goto(t, "test") /\ Disturb(t)
    /\ UNCHANGED <<queue, beep, timer, out, mine, suspended, seen>>
Test(t) ==
    /\ pc[t] = "test" /\ Goto(t, IF frequency # want[t] THEN "hw" ELSE "set")
    /\ UNCHANGED <<queue, beep, timer, out, want, mine, alone, suspended, seen, calls>>
Hw(t) ==
    /\ pc[t] = "hw" /\ pwm' = want[t] /\ Goto(t, "store") /\ raced' = (raced \/ Setting(t) # {})
    /\ UNCHANGED <<queue, beep, timer, frequency, want, mine, alone, suspended, overtaken, crossed, calls>>
Store(t) ==
    /\ pc[t] = "store" /\ frequency' = want[t] /\ Goto(t, "set") /\ raced' = (raced \/ Setting(t) # {})
    /\ UNCHANGED <<queue, beep, timer, pwm, want, mine, alone, suspended, overtaken, crossed, calls>>
Set(t) ==
    /\ pc[t] = "set" /\ t \in Setters /\ Goto(t, "idle")
    /\ UNCHANGED <<queue, beep, timer, out, want, mine, alone, suspended, seen, calls>>

----------------------------------------------------------------------------
(* The timer, which interrupts whatever a task does                         *)

Tick ==
    /\ left > 0 /\ left' = left - 1 /\ heard' = (IF playing = Nobody THEN 0 ELSE heard + 1)
    /\ UNCHANGED <<queue, beep, playing, out, pc, want, mine, alone, suspended, seen, calls>>

buzzer_pwm_set(f) == frequency' = f /\ pwm' = IF frequency # f THEN f ELSE pwm

queue_pop == Tail(queue)
timer_forward_now(i) == beep[i].millisecond

buzzer_pwm_timer_function ==
    /\ left = 0 /\ raced' = (raced \/ Setting(Nobody) # {})
    /\ \/ /\ queue = <<>> /\ buzzer_pwm_set(0) /\ left' = Off
          /\ beep' = Over /\ playing' = Nobody /\ heard' = 0 /\ UNCHANGED queue
       \/ /\ queue # <<>> /\ queue' = queue_pop /\ playing' = Head(queue) /\ heard' = 0
          /\ buzzer_pwm_set(beep[Head(queue)].frequency) /\ left' = timer_forward_now(Head(queue))
          /\ beep' = [Over EXCEPT ![Head(queue)].fate = "sounds"]
    /\ UNCHANGED <<pc, want, mine, alone, suspended, overtaken, crossed, calls>>

----------------------------------------------------------------------------
(* Power: the field keeps what is to sound after the resume                 *)

buzzer_pwm_suspend(t) ==
    /\ pc[t] = "idle" /\ ~suspended /\ Call /\ suspended' = TRUE /\ pwm' = 0
    /\ raced' = (raced \/ Setting(t) # {})
    /\ UNCHANGED <<queue, beep, timer, frequency, pc, want, mine, alone, overtaken, crossed>>
buzzer_pwm_resume(t) ==
    /\ pc[t] = "idle" /\ suspended /\ want' = [want EXCEPT ![t] = frequency] /\ Goto(t, "resume")
    /\ UNCHANGED <<queue, beep, timer, out, mine, alone, suspended, seen, calls>>
Resume(t) ==
    /\ pc[t] = "resume" /\ pwm' = want[t] /\ suspended' = FALSE /\ Goto(t, "idle")
    /\ raced' = (raced \/ Setting(t) # {})
    /\ UNCHANGED <<queue, beep, timer, frequency, want, mine, alone, overtaken, crossed, calls>>

Step(t) == Avail(t) \/ Start(t) \/ Clear(t) \/ Stopped(t) \/ Test(t) \/ Hw(t) \/ Store(t) \/ Set(t)
           \/ buzzer_pwm_resume(t) \/ Resume(t)
Next ==
    \/ \E t \in Tasks : (\E f \in Frequencies, ms \in Millis : Push(t, f, ms)) \/ timer_cancel(t)
    \/ \E t \in Setters, f \in Frequencies : buzzer_set_frequency(t, f)
    \/ \E t \in Powers : buzzer_pwm_suspend(t)
    \/ \E t \in All : Step(t)
    \/ Tick \/ buzzer_pwm_timer_function

----------------------------------------------------------------------------
(* buzzer_play() of drivers/buzzer/buzzer.c: the beeps a ringtone is turned *)
(* into.  A text is its control pairs and its tone commands; how they are   *)
(* written (blanks, commas) is left out.                                    *)

\* What *notes[] holds behind its 0, from NOTE_C4 to NOTE_B7.
notes == <<262, 277, 294, 311, 330, 349, 370, 392, 415, 440, 466, 494,
           523, 554, 587, 622, 659, 698, 740, 784, 831, 880, 932, 988,
           1047, 1109, 1175, 1245, 1319, 1397, 1480, 1568, 1661, 1760, 1865, 1976,
           2093, 2217, 2349, 2489, 2637, 2794, 2960, 3136, 3322, 3520, 3729, 3951>>

\* d is a number of 1/32 notes.
Defaults == [d |-> 4, o |-> 6, b |-> 63]

\* The controls: a name that is not known is skipped with its value.
Control(s, pair) ==
    CASE pair.name = "d" -> [s EXCEPT !.d = 32 \div pair.value]
      [] pair.name = "o" /\ pair.value \in 4..7 -> [s EXCEPT !.o = pair.value]
      [] pair.name = "b" -> [s EXCEPT !.b = pair.value]
      [] OTHER -> s
Controls(controls) == FoldLeft(Control, Defaults, controls)

Index(note) == CASE note = "c" -> 1 [] note = "d" -> 3 [] note = "e" -> 5 [] note = "f" -> 6
               [] note = "g" -> 8 [] note = "a" -> 10 [] note \in {"b", "h"} -> 12 [] OTHER -> 0

\* A tone has its own duration and scale or none (0), a sharp, and a dot before
\* the scale, behind it, or in both places.
Duration_base(s, tone) == IF tone.value = 0 THEN s.d ELSE 32 \div tone.value
Dotted(duration) == duration + duration \div 2
Duration(s, tone) ==
    CASE tone.dots = 0 -> Duration_base(s, tone)
      [] tone.dots = 1 -> Dotted(Duration_base(s, tone))
      [] tone.dots = 2 -> Dotted(Dotted(Duration_base(s, tone)))
Scale(s, tone) == IF tone.scale = 0 THEN s.o ELSE tone.scale
Key(tone) == Index(tone.note) + (IF tone.sharp THEN 1 ELSE 0)

Beep(hz, ms) == [frequency |-> hz, millisecond |-> ms]
Sound(hz, t) == <<Beep(hz, (t * 7) \div 8), Beep(0, t \div 8)>>
Tone(s, tone) ==
    LET t == (Duration(s, tone) * 60000) \div (s.b * 8)
    IN IF Key(tone) = 0 THEN <<Beep(0, t)>> ELSE Sound(notes[(Scale(s, tone) - 4) * 12 + Key(tone)], t)

\* Everything that was queued is dropped first.
buzzer_play(controls, melody) ==
    <<Beep(0, 0)>> \o FlattenSeq([i \in DOMAIN melody |-> Tone(Controls(controls), melody[i])])

\* Every short ringtone that the grammar at drivers/buzzer/buzzer.c:273 allows.
Notes == <<"c", "c#", "d", "d#", "e", "f", "f#", "g", "g#", "a", "a#", "b", "p">>
Plain(k) == IF Notes[k] \in {"c#", "d#", "f#", "g#", "a#"} THEN Notes[k - 1] ELSE Notes[k]
Tones == {[note |-> Plain(k), sharp |-> Notes[k] # Plain(k), value |-> v, dots |-> n, scale |-> o] :
            k \in DOMAIN Notes, v \in Values, n \in 0..1, o \in Scales}

TuneInit == pairs = <<>> /\ tones = <<>>
Pair(pair) == Len(pairs) < MaxPairs /\ tones = <<>> /\ pairs' = Append(pairs, pair) /\ UNCHANGED tones
Play(tone) == Len(tones) < MaxTones /\ tones' = Append(tones, tone) /\ UNCHANGED pairs
TuneNext == (\E pair \in Pairs : Pair(pair)) \/ (\E tone \in Tones : Play(tone))

----------------------------------------------------------------------------
(* What a buzzer makes of the beeps it is given.                            *)

Idle == \A t \in All : pc[t] = "idle"

\* Beeps sound in the order in which they were pushed: no later one has begun
\* while an earlier one waits, and none is passed over unless it was cleared.
InOrder ==
    /\ \A i, j \in DOMAIN beep : (i < j /\ beep[i].fate = "queued") => beep[j].fate \in {"queued", "dropped"}
    /\ \A i \in DOMAIN beep : (beep[i].fate = "queued") = (\E k \in DOMAIN queue : queue[k] = i)

\* What is queued will be played: the timer is armed when no task is about to
\* start it, unless two tasks pushed before either looked at the length.
Driven == (queue # <<>> /\ Idle /\ ~crossed) => left # Off

\* A beep is cut short only by the beep that was the only one behind it.
Whole == \A i \in DOMAIN beep : beep[i].fate = "short" => i \in overtaken

\* "Clear and stop": nothing sounds and nothing is queued when the call of a
\* task that was alone returns.
StopsAll == \A t \in Tasks : (pc[t] = "set" /\ alone[t]) => (queue = <<>> /\ left = Off /\ (pwm = 0 \/ raced))

\* The hardware puts out what the driver believes, before a suspend and after
\* the resume, unless the timer or a task has set in the midst of another set.
HwAgrees == (Idle /\ ~suspended /\ ~raced) => pwm = frequency

\* In the end every beep has sounded or was cleared, and there is silence but
\* for a frequency that was set.
Ends == <>crossed \/ <>[](queue = <<>> /\ left = Off /\ (Setters = {} => frequency = 0))

BuzzerSound == InOrder /\ Driven /\ Whole /\ StopsAll /\ HwAgrees

Beeps == Tail(buzzer_play(pairs, tones))
Chosen(name, legal, default) ==
    LET of == SelectSeq(pairs, LAMBDA pair : pair.name = name /\ pair.value \in legal)
    IN IF of = <<>> THEN default ELSE of[Len(of)].value
Beats == Chosen("b", Nat, 63)
Rest(tone) == tone.note = "p"
Total == FoldLeft(LAMBDA sum, sound : sum + sound.millisecond, 0, Beeps)

\* A tone that has no duration in a ringtone whose controls give none.
Unsaid == (\E i \in DOMAIN tones : tones[i].value = 0) /\ \A i \in DOMAIN pairs : pairs[i].name # "d"

\* How long a tone is in units of 1 / (64 * Beats) minutes of four beats, when one
\* that is unsaid is a 1 / unsaid note.
Long(tone, unsaid) ==
    LET n == IF tone.value = 0 THEN Chosen("d", Nat, unsaid) ELSE tone.value
    IN (64 \div n) * (IF tone.dots = 1 THEN 3 ELSE 2)
Sum(unsaid) == FoldLeft(LAMBDA sum, tone : sum + Long(tone, unsaid), 0, tones)
Faithful(unsaid) == LET den == 64 * 2 * Beats IN Total * den <= 240000 * Sum(unsaid)
                                                /\ 240000 * Sum(unsaid) < (Total + 2 * Len(tones)) * den

\* A tune whose durations are given, by its tones or by its controls, lasts as long
\* as its beats and notes say, to two milliseconds a tone, but for a dotted 1/32,
\* whose dot is lost.
Thirtysecond(tone) == tone.dots = 1 /\ 32 \in {tone.value, IF tone.value = 0 THEN Chosen("d", Nat, 4) ELSE 0}
Exact == tones # <<>> /\ \A i \in DOMAIN tones : ~Thirtysecond(tones[i])
LengthTrue == Exact /\ ~Unsaid => Faithful(4)

\* Where no duration is given, the comment at drivers/buzzer/buzzer.c:296 promises
\* 1/4 notes.  The code plays 1/8 notes: its default 4 is a number of 1/32 notes, into
\* which only the value of a control pair is turned.
UnsaidIsShort == Exact /\ Unsaid => Faithful(8) /\ ~Faithful(4)

\* A tone sounds at its pitch: the A of octave 4 has 440 Hz, an octave twice the
\* frequency, a semitone 2^(1/12) of it; an octave that is none is not taken.
Ratio == <<5946, 6300, 6674, 7071, 7492, 7937, 8409, 8909, 9439, 10000, 10595, 11225>>
Pitch(tone) ==
    LET k == CHOOSE i \in 1..12 : Notes[i] = (IF tone.sharp THEN Notes[i] ELSE tone.note) /\ Plain(i) = tone.note
                                  /\ (tone.sharp <=> Plain(i) # Notes[i])
        o == IF tone.scale = 0 THEN Chosen("o", 4..7, 6) ELSE tone.scale
    IN (440 * 2^(o - 4) * Ratio[k]) \div 10000
Heard == SelectSeq(Beeps, LAMBDA sound : sound.frequency > 0)
Sounding == SelectSeq(tones, LAMBDA tone : ~Rest(tone))
PitchTrue ==
    /\ Len(Heard) = Len(Sounding)
    /\ \A i \in DOMAIN Heard : Heard[i].frequency - Pitch(Sounding[i]) \in -1..2

\* Two tones are told apart by a silence, and no beep of a tune is the one that
\* means "clear and stop", as it would be from 938 beats a minute on.
ToldApart ==
    /\ \A i \in DOMAIN Beeps : Beeps[i] # Beep(0, 0)
    /\ \A i \in DOMAIN Beeps : Beeps[i].frequency > 0 => (i < Len(Beeps) /\ Beeps[i + 1].frequency = 0)

TuneTrue == LengthTrue /\ UnsaidIsShort /\ PitchTrue /\ ToldApart
=============================================================================
