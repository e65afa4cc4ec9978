--------------------------- MODULE SlotStatistics ---------------------------
(***************************************************************************)
(* The streaming metrics of one evaluation slot (evaluation/runner.py,      *)
(* _run_batch).  A long gate cannot keep trajectories, so every metric of   *)
(* the report is a sum, a count, a maximum or a run length updated in place *)
(* under a mask; the loop goes on for the other slots after this one has    *)
(* finished, and then its frames are of a robot that was reset or is given  *)
(* zero actions.  episode is what the metrics are about: the frames up to   *)
(* the one the slot finished on.  The verdict itself is in EvaluationSlot.  *)
(* Physical quantities are reduced to one small number, the action, whose   *)
(* treatment (sum, square, difference, alternating sum) stands for all of   *)
(* them; the low-pass filter and square roots are left out.                 *)
(***************************************************************************)
EXTENDS Integers, Sequences, FiniteSets, FiniteSetsExt

CONSTANTS MaxSteps,       \* the loop bound max_horizon
          HoldSteps,      \* RecoveryEnvelope.stable_duration_s in steps
          CommandSteps    \* steps at which a scenario may set its target

VARIABLES
    step, active,
    command,     \* the step of the target command
    actions,     \* previous_action, previous_previous_action, action_history_count
    rates,       \* sum_action_rate_sq, ..second_difference_sq and their counts
    contact,     \* previous contacts, single-wheel run, transitions
    totals,      \* sums and maxima over the active frames
    still,       \* sums over the stationary frames
    target,      \* target_commanded, target_arrived and what follows arrival
    hold,        \* recovery_stable_count, recovery_success, recovery_from_start_s
    episode      \* history: the frames of the episode

vars == <<step, active, command, actions, rates, contact, totals, still, target,
          hold, episode>>

Missing == "nan"
Acts == 0..1

\* The stationary envelope is the stricter one, and both need both wheels.
Frames ==
    {f \in [act : Acts, left : BOOLEAN, right : BOOLEAN, near : BOOLEAN,
            upright : BOOLEAN, quiet : BOOLEAN] :
        /\ f.quiet => f.upright
        /\ f.upright => f.left /\ f.right}

Init ==
    /\ step = 0 /\ active = TRUE /\ command \in CommandSteps /\ episode = <<>>
    /\ actions = [last |-> 0, before |-> 0, count |-> 0]
    /\ rates = [first |-> 0, firstN |-> 0, second |-> 0, secondN |-> 0]
    /\ contact = [left |-> FALSE, right |-> FALSE, seen |-> FALSE,
                  run |-> 0, longest |-> 0, changes |-> 0]
    /\ totals = [frames |-> 0, sum |-> 0, peak |-> 0, both |-> 0, leftOnly |-> 0,
                 rightOnly |-> 0, airborne |-> 0, path |-> 0, place |-> FALSE]
    /\ still = [frames |-> 0, sum |-> 0, squares |-> 0, alternating |-> 0,
                first |-> 0, firstN |-> 0, second |-> 0, secondN |-> 0, path |-> 0]
    /\ target = [commanded |-> FALSE, arrived |-> FALSE, at |-> 0,
                 near |-> Missing, post |-> 0]
    /\ hold = [count |-> 0, success |-> FALSE, from |-> 0, longest |-> 0]

-----------------------------------------------------------------------------
(* One frame.  weight is active.float(): a mask, not a branch.             *)

Bit(b) == IF b THEN 1 ELSE 0
Sq(x) == x * x
Delta(f) == Sq(f.act - actions.last)
Delta2(f) == Sq(f.act - 2 * actions.last + actions.before)

\* Seeded defect: the first action is compared with the zero it starts from.
RatesFromZero(f) ==
    [first |-> rates.first + Delta(f) * Bit(active),
     firstN |-> rates.firstN + Bit(active),
     second |-> rates.second + Delta2(f) * Bit(active /\ actions.count >= 2),
     secondN |-> rates.secondN + Bit(active /\ actions.count >= 2)]

\* Differences need one and two previous actions of this episode.
Rates(f) ==
    LET one == Bit(active /\ actions.count >= 1)
        two == Bit(active /\ actions.count >= 2)
    IN  [first |-> rates.first + Delta(f) * one, firstN |-> rates.firstN + one,
         second |-> rates.second + Delta2(f) * two, secondN |-> rates.secondN + two]

\* Seeded defect: the frames after the end are still counted as support runs.
ContactsUnmasked(f) ==
    LET single == f.left # f.right
        run == IF single THEN contact.run + 1 ELSE 0
    IN  [left |-> f.left, right |-> f.right, seen |-> TRUE, run |-> run,
         longest |-> Max({contact.longest, run}),
         changes |-> contact.changes
            + Bit(contact.seen /\ (f.left # contact.left \/ f.right # contact.right))]

\* Contact changes between frames of the episode, and the longest time on one
\* wheel; an inactive slot keeps its run.
Contacts(f) ==
    LET single == f.left # f.right
        run == CASE active /\ single -> contact.run + 1
                 [] active /\ ~single -> 0
                 [] OTHER -> contact.run
    IN  [left |-> IF active THEN f.left ELSE contact.left,
         right |-> IF active THEN f.right ELSE contact.right,
         seen |-> contact.seen \/ active,
         run |-> run, longest |-> Max({contact.longest, run}),
         changes |-> contact.changes
            + Bit(active /\ contact.seen /\ (f.left # contact.left \/ f.right # contact.right))]

\* prev_xy follows every frame, weighted sums only the active ones.
Totals(f) ==
    LET weight == Bit(active)
    IN  [frames |-> totals.frames + weight,
         sum |-> totals.sum + f.act * weight,
         peak |-> Max({totals.peak, IF active THEN f.act ELSE 0}),
         both |-> totals.both + Bit(f.left /\ f.right) * weight,
         leftOnly |-> totals.leftOnly + Bit(f.left /\ ~f.right) * weight,
         rightOnly |-> totals.rightOnly + Bit(f.right /\ ~f.left) * weight,
         airborne |-> totals.airborne + Bit(~f.left /\ ~f.right) * weight,
         path |-> totals.path + Bit(f.near # totals.place) * weight,
         place |-> f.near]

\* Seeded defect: the alternating sign follows the loop, not the samples.
StationaryByStep(f) ==
    LET now == active /\ f.quiet
        weight == Bit(now)
        one == Bit(now /\ actions.count >= 1)
        two == Bit(now /\ actions.count >= 2)
        sign == IF step % 2 = 0 THEN 1 ELSE -1
    IN  [frames |-> still.frames + weight, sum |-> still.sum + f.act * weight,
         squares |-> still.squares + Sq(f.act) * weight,
         alternating |-> still.alternating + f.act * weight * sign,
         first |-> still.first + Delta(f) * one, firstN |-> still.firstN + one,
         second |-> still.second + Delta2(f) * two, secondN |-> still.secondN + two,
         path |-> still.path + Bit(f.near # totals.place) * weight]

\* Stationary quality samples the current low-motion envelope only; the sign of
\* the Nyquist sum alternates over those samples, and an action difference is
\* taken with the previous frame whether or not that one was stationary.
Stationary(f) ==
    LET now == active /\ f.quiet
        weight == Bit(now)
        one == Bit(now /\ actions.count >= 1)
        two == Bit(now /\ actions.count >= 2)
        sign == IF still.frames % 2 = 0 THEN 1 ELSE -1
    IN  [frames |-> still.frames + weight, sum |-> still.sum + f.act * weight,
         squares |-> still.squares + Sq(f.act) * weight,
         alternating |-> still.alternating + f.act * weight * sign,
         first |-> still.first + Delta(f) * one, firstN |-> still.firstN + one,
         second |-> still.second + Delta2(f) * two, secondN |-> still.secondN + two,
         path |-> still.path + Bit(f.near # totals.place) * weight]

\* The first crossing of the target's radius after it was commanded, and the
\* frames from that one on.
Target(f) ==
    LET commanded == target.commanded \/ step = command
        new == active /\ commanded /\ ~target.arrived /\ f.near
        arrived == target.arrived \/ new
    IN  [commanded |-> commanded, arrived |-> arrived,
         at |-> IF new THEN step + 1 ELSE target.at,
         near |-> IF active /\ commanded THEN f.near ELSE target.near,
         post |-> target.post + Bit(active /\ arrived)]

\* Recovery from the start: the envelope held for HoldSteps, dated back to the
\* first frame of that window.
Hold(f) ==
    LET count == CASE active /\ f.upright -> hold.count + 1
                   [] active /\ ~f.upright -> 0
                   [] OTHER -> hold.count
        new == active /\ ~hold.success /\ count >= HoldSteps
    IN  [count |-> count, success |-> hold.success \/ new,
         from |-> IF new THEN step - HoldSteps + 1 ELSE hold.from,
         longest |-> Max({hold.longest, count})]

History(f) ==
    IF active THEN [last |-> f.act, before |-> actions.last, count |-> actions.count + 1]
              ELSE actions

\* One iteration of the loop: every metric sees the frame before the slot is
\* finished by it, and the action history moves on after its last reader.
Frame(f, done) ==
    /\ step < MaxSteps
    /\ rates' = Rates(f) /\ contact' = Contacts(f) /\ target' = Target(f)
    /\ totals' = Totals(f) /\ still' = Stationary(f) /\ actions' = History(f)
    /\ hold' = Hold(f)
    /\ episode' = IF active THEN Append(episode, f) ELSE episode
    /\ active' = (active /\ ~done)
    /\ step' = step + 1
    /\ UNCHANGED command

Next == \E f \in Frames, done \in BOOLEAN : Frame(f, done)
Spec == Init /\ [][Next]_vars

-----------------------------------------------------------------------------
(* The row of the report: a mean is <<sum, samples>>.                      *)

\* clamp(min=1): an absent denominator is one, so the mean is zero.
Mean(sum, n) == <<sum, Max({n, 1})>>
Present(n, value) == IF n > 0 THEN value ELSE Missing

Means ==
    [episode_steps |-> totals.frames,
     mean |-> Mean(totals.sum, totals.frames), peak |-> totals.peak,
     action_rate |-> Mean(rates.first, rates.firstN),
     second_difference |-> Mean(rates.second, rates.secondN),
     path_length |-> totals.path]

Morphology ==
    [dual |-> Mean(totals.both, totals.frames),
     left_only |-> Mean(totals.leftOnly, totals.frames),
     right_only |-> Mean(totals.rightOnly, totals.frames),
     longest_single |-> contact.longest, transitions |-> contact.changes]

Quality ==
    [mean |-> Present(still.frames, Mean(still.sum, still.frames)),
     power |-> Present(still.frames, Mean(still.squares, still.frames)),
     nyquist |-> Present(still.frames, still.alternating),
     path |-> Present(still.frames, still.path),
     action_rate |-> Present(still.firstN, Mean(still.first, still.firstN)),
     second_difference |-> Present(still.secondN, Mean(still.second, still.secondN))]

Arrival ==
    [target_arrived |-> target.arrived, at |-> target.at, final |-> target.near,
     post |-> Present(target.post, target.post)]

Recovery == [success |-> hold.success, from |-> hold.from, longest |-> hold.longest]

-----------------------------------------------------------------------------
(* The same row, computed from the episode when it is over.                *)

Duration == Len(episode)
Steps == 1..Duration
Latest(v, none) == IF Duration = 0 THEN none ELSE v[Duration]

\* The sum of v over S, of natural numbers: the size of the area under v.
Total(S, v) == Cardinality(UNION {{i} \X (1..v[i]) : i \in S})

\* The steps from the second and from the third on.
Later(S) == S \ {1}
Third(S) == S \ {1, 2}

Action == [i \in Steps |-> episode[i].act]
Power == [i \in Steps |-> Sq(episode[i].act)]
Change == [i \in Later(Steps) |-> Sq(episode[i].act - episode[i - 1].act)]
Bend ==
    [i \in Third(Steps) |->
        Sq(episode[i].act - 2 * episode[i - 1].act + episode[i - 2].act)]
Place == [i \in Steps |-> episode[i].near]

Both == {i \in Steps : episode[i].left /\ episode[i].right}
LeftOnly == {i \in Steps : episode[i].left /\ ~episode[i].right}
RightOnly == {i \in Steps : ~episode[i].left /\ episode[i].right}
Airborne == {i \in Steps : ~episode[i].left /\ ~episode[i].right}
Single == {i \in Steps : episode[i].left # episode[i].right}
Upright == {i \in Steps : episode[i].upright}
Switched == {i \in Later(Steps) : \/ episode[i].left # episode[i - 1].left
                                  \/ episode[i].right # episode[i - 1].right}
Moved == {i \in Steps : Place[i] # (IF i = 1 THEN FALSE ELSE Place[i - 1])}

\* The stationary steps, those with an even number of them before, and the others.
Quiet == {i \in Steps : episode[i].quiet}
Plus == {i \in Quiet : Cardinality({j \in Quiet : j < i}) % 2 = 0}
Minus == Quiet \ Plus

\* The longest run of steps of a set.
Longest(S) ==
    Max({0} \cup {m \in Steps : \E i \in 0..(Duration - m) : (i + 1)..(i + m) \subseteq S})

\* The frames after the command, those near the target, and the ends of a hold.
Commanded == {i \in Steps : i > command}
Crossed == {i \in Commanded : episode[i].near}
Held == {e \in Steps : e >= HoldSteps /\ (e - HoldSteps + 1)..e \subseteq Upright}

MeansOfEpisode ==
    [episode_steps |-> Duration,
     mean |-> Mean(Total(Steps, Action), Duration),
     peak |-> Max({0} \cup {Action[i] : i \in Steps}),
     action_rate |-> Mean(Total(Later(Steps), Change), Cardinality(Later(Steps))),
     second_difference |-> Mean(Total(Third(Steps), Bend), Cardinality(Third(Steps))),
     path_length |-> Cardinality(Moved)]

MorphologyOfEpisode ==
    [dual |-> Mean(Cardinality(Both), Duration),
     left_only |-> Mean(Cardinality(LeftOnly), Duration),
     right_only |-> Mean(Cardinality(RightOnly), Duration),
     longest_single |-> Longest(Single), transitions |-> Cardinality(Switched)]

QualityOfEpisode ==
    LET samples == Cardinality(Quiet)
        later == Later(Quiet)
        third == Third(Quiet)
    IN  [mean |-> Present(samples, Mean(Total(Quiet, Action), samples)),
         power |-> Present(samples, Mean(Total(Quiet, Power), samples)),
         nyquist |-> Present(samples, Total(Plus, Action) - Total(Minus, Action)),
         path |-> Present(samples, Cardinality(Moved \cap Quiet)),
         action_rate |-> Present(Cardinality(later),
                                 Mean(Total(later, Change), Cardinality(later))),
         second_difference |-> Present(Cardinality(third),
                                       Mean(Total(third, Bend), Cardinality(third)))]

ArrivalOfEpisode ==
    [target_arrived |-> Crossed # {}, at |-> IF Crossed = {} THEN 0 ELSE Min(Crossed),
     final |-> IF Commanded = {} THEN Missing ELSE Place[Duration],
     post |-> IF Crossed = {} THEN Missing ELSE Duration - Min(Crossed) + 1]

RecoveryOfEpisode ==
    [success |-> Held # {}, from |-> IF Held = {} THEN 0 ELSE Min(Held) - HoldSteps,
     longest |-> Longest(Upright)]

\* Whatever the other slots of the batch make the loop do afterwards, the row
\* reported for a slot is the row of its own episode: no frame of the reset
\* robot, no difference across the start, no lost or repeated sample, and a
\* missing value exactly where the episode has no sample.
\* (runner.py:951-972, 1064-1107, 1211-1430, 1538-1740)
StatisticsAreOfTheEpisode ==
    /\ Means = MeansOfEpisode
    /\ Morphology = MorphologyOfEpisode
    /\ Quality = QualityOfEpisode
    /\ Arrival = ArrivalOfEpisode
    /\ Recovery = RecoveryOfEpisode

-----------------------------------------------------------------------------
(* Inductive strengthening: what each accumulator holds.                   *)

\* While the slot is active the loop has seen the frames of the episode.
EpisodeIs ==
    /\ episode \in Seq(Frames) /\ step \in Nat /\ active \in BOOLEAN /\ command \in Nat
    /\ active => Duration = step

HistoryIs ==
    actions = [last |-> Latest(Action, 0), count |-> Duration,
               before |-> IF Duration < 2 THEN 0 ELSE Action[Duration - 1]]

RatesAre ==
    rates = [first |-> Total(Later(Steps), Change), firstN |-> Cardinality(Later(Steps)),
             second |-> Total(Third(Steps), Bend), secondN |-> Cardinality(Third(Steps))]

\* r steps of S end the episode.
Ends(r, S) ==
    /\ r \in 0..Duration /\ (Duration - r + 1)..Duration \subseteq S
    /\ r < Duration => Duration - r \notin S

ContactsAre ==
    /\ Ends(contact.run, Single)
    /\ contact = [left |-> IF Duration = 0 THEN FALSE ELSE episode[Duration].left,
                  right |-> IF Duration = 0 THEN FALSE ELSE episode[Duration].right,
                  seen |-> Duration > 0, run |-> contact.run,
                  longest |-> Longest(Single), changes |-> Cardinality(Switched)]

TotalsAre ==
    /\ totals = [frames |-> Duration, sum |-> Total(Steps, Action),
                 peak |-> Max({0} \cup {Action[i] : i \in Steps}),
                 both |-> Cardinality(Both), leftOnly |-> Cardinality(LeftOnly),
                 rightOnly |-> Cardinality(RightOnly), airborne |-> Cardinality(Airborne),
                 path |-> Cardinality(Moved), place |-> totals.place]
    /\ totals.place \in BOOLEAN
    /\ active => totals.place = Latest(Place, FALSE)

StillIs ==
    still = [frames |-> Cardinality(Quiet), sum |-> Total(Quiet, Action),
             squares |-> Total(Quiet, Power),
             alternating |-> Total(Plus, Action) - Total(Minus, Action),
             first |-> Total(Later(Quiet), Change), firstN |-> Cardinality(Later(Quiet)),
             second |-> Total(Third(Quiet), Bend), secondN |-> Cardinality(Third(Quiet)),
             path |-> Cardinality(Moved \cap Quiet)]

TargetIs ==
    /\ target = [commanded |-> target.commanded, arrived |-> Crossed # {},
                 at |-> IF Crossed = {} THEN 0 ELSE Min(Crossed),
                 near |-> IF Commanded = {} THEN Missing ELSE Place[Duration],
                 post |-> IF Crossed = {} THEN 0 ELSE Duration - Min(Crossed) + 1]
    /\ target.commanded \in BOOLEAN
    /\ active => (target.commanded <=> command < step)

HoldIs ==
    /\ Ends(hold.count, Upright)
    /\ hold = [count |-> hold.count, success |-> Held # {},
               from |-> IF Held = {} THEN 0 ELSE Min(Held) - HoldSteps,
               longest |-> Longest(Upright)]

IInv ==
    /\ EpisodeIs /\ HistoryIs /\ RatesAre /\ ContactsAre /\ TotalsAre /\ StillIs
    /\ TargetIs /\ HoldIs
=============================================================================
