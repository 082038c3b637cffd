----------------------------- MODULE CronBuilder -----------------------------
(***************************************************************************)
(* The schedule field of a workflow's cron trigger.  The builder keeps a type *)
(* and lists of minutes, hours and days; every change of them, and mounting,   *)
(* writes the expression they make; mounting parses the expression stored.      *)
(* A cron field is '*', '?', a list of numbers, or a range or step, of which     *)
(* parseInt reads what comes before the first other character.                    *)
(***************************************************************************)
EXTENDS Naturals, Sequences, SequencesExt

CONSTANTS CbSize,       \* of each list: how many values there are in all
          CbFirst,      \* of each list: its smallest value
          CustomTexts,  \* expressions typed by hand
          MaxCbTurns,   \* bound: what the user does
          Unmounted

ASSUME CbAssumption ==
    /\ DOMAIN CbSize = {"minutes", "hours", "daysOfMonth", "months", "daysOfWeek"}
    /\ \A text \in CustomTexts : text \in Seq([k : STRING, v : Seq(Nat)])

VARIABLES cbStored,     \* the trigger's schedule
          cbForm,       \* the mounted builder: its type, its lists, its own text
          cbEntered,    \* history: the schedule as the user left it
          cbByHand,     \* history: it was typed, not put together
          cbTurns

cbVars == <<cbStored, cbForm, cbEntered, cbByHand, cbTurns>>

Lists == DOMAIN CbSize
ScheduleTypes == {"never", "hour", "day", "week", "month", "year", "custom"}
Star == [k |-> "*", v |-> <<>>]
Question == [k |-> "?", v |-> <<>>]
Numbers(s) == [k |-> "list", v |-> s]

\* ScheduleFields: the lists a type shows.
ScheduleFields(type) ==
    CASE type = "hour" -> {"minutes"}
      [] type = "day" -> {"minutes", "hours"}
      [] type = "week" -> {"minutes", "hours", "daysOfWeek"}
      [] type = "month" -> {"minutes", "hours", "daysOfMonth"}
      [] type = "year" -> {"minutes", "hours", "daysOfMonth", "months"}
      [] OTHER -> {}

\* String.trim: a field that is an empty list is the empty string, and goes at either end.
Texty(e) == {i \in 1..Len(e) : e[i] # Numbers(<<>>)}
trim(e) == IF Texty(e) = {} THEN <<>> ELSE SubSeq(e, Min(Texty(e)), Max(Texty(e)))

parseNumbers(field) == IF field.k \in {"*", "?"} THEN <<>> ELSE field.v

\* Mutant: a week is known by its month field alone.
MixesDays(e) ==
    CASE e[1] # Star /\ e[2] = Star /\ e[3] = Star /\ e[4] = Star /\ e[5] = Question -> "hour"
      [] e[1] # Star /\ e[2] # Star /\ e[3] = Star /\ e[4] = Star /\ e[5] = Question -> "day"
      [] e[1] # Star /\ e[2] # Star /\ e[4] = Star /\ e[5] # Star -> "week"
      [] OTHER -> "custom"

typeOf(e) ==
    CASE e[1] # Star /\ e[2] = Star /\ e[3] = Star /\ e[4] = Star /\ e[5] = Question -> "hour"
      [] e[1] # Star /\ e[2] # Star /\ e[3] = Star /\ e[4] = Star /\ e[5] = Question -> "day"
      [] e[1] # Star /\ e[2] # Star /\ e[3] = Question /\ e[4] = Star /\ e[5] # Star -> "week"
      [] e[1] # Star /\ e[2] # Star /\ e[3] # Star /\ e[4] = Star /\ e[5] = Question -> "month"
      [] OTHER -> "custom"

fieldOf == [minutes |-> 1, hours |-> 2, daysOfMonth |-> 3, months |-> 4, daysOfWeek |-> 5]
loadDefaults == [l \in Lists |-> <<CbFirst[l]>>]

\* The state a mounted builder starts in; a list the type does not use has its default.
parseCronExpression(stored) ==
    LET e == trim(stored)
        type == IF stored = <<>> THEN "never" ELSE IF Len(e) # 5 THEN "custom" ELSE typeOf(e)
    IN [type |-> type,
        lists |-> [l \in Lists |-> IF l \in ScheduleFields(type) THEN parseNumbers(e[fieldOf[l]])
                                   ELSE loadDefaults[l]],
        custom |-> IF type = "custom" THEN e ELSE stored]

\* A list with every value in it is written as '*', whatever its order.
csv(form, l) == IF Len(form.lists[l]) = CbSize[l] THEN Star ELSE Numbers(form.lists[l])
cronExpression(form) ==
    CASE form.type = "hour" -> <<csv(form, "minutes"), Star, Star, Star, Question>>
      [] form.type = "day" -> <<csv(form, "minutes"), csv(form, "hours"), Star, Star, Question>>
      [] form.type = "week" -> <<csv(form, "minutes"), csv(form, "hours"), Question, Star, csv(form, "daysOfWeek")>>
      [] form.type = "month" -> <<csv(form, "minutes"), csv(form, "hours"), csv(form, "daysOfMonth"), Star, Question>>
      [] form.type = "year" -> <<csv(form, "minutes"), csv(form, "hours"), csv(form, "daysOfMonth"),
                                 csv(form, "months"), Question>>
      [] form.type = "custom" -> form.custom
      [] OTHER -> <<>>

CbInit ==
    /\ cbStored \in CustomTexts \cup {<<>>}
    /\ cbEntered = cbStored /\ cbByHand = TRUE
    /\ cbForm = Unmounted /\ cbTurns = 0

CbTurn == cbTurns < MaxCbTurns /\ cbTurns' = cbTurns + 1

\* The effect after mounting, and after each change, hands the expression on.
MountBuilder ==
    /\ cbForm = Unmounted /\ CbTurn
    /\ cbForm' = parseCronExpression(cbStored)
    /\ cbStored' = cronExpression(cbForm')
    /\ UNCHANGED <<cbEntered, cbByHand>>

UnmountBuilder ==
    /\ cbForm # Unmounted
    /\ cbForm' = Unmounted
    /\ UNCHANGED <<cbStored, cbEntered, cbByHand, cbTurns>>

Changed(form) ==
    /\ cbForm # Unmounted /\ CbTurn
    /\ cbForm' = form
    /\ cbStored' = cronExpression(form)
    /\ cbEntered' = cbStored'
    /\ cbByHand' = (form.type = "custom")

pickType(type) == Changed([cbForm EXCEPT !.type = type, !.lists = loadDefaults])

\* Mutant: a box that is ticked already is ticked once more.
OnlyTicks(s, n) == Append(s, n)

Toggled(s, n) == IF Contains(s, n) THEN SelectSeq(s, LAMBDA m : m # n) ELSE Append(s, n)
toggleOf(l) == \E n \in CbFirst[l]..(CbFirst[l] + CbSize[l] - 1) :
    Changed([cbForm EXCEPT !.lists[l] = Toggled(@, n)])

handleMinuteToggle == "minutes" \in ScheduleFields(cbForm.type) /\ toggleOf("minutes")
handleHourToggle == "hours" \in ScheduleFields(cbForm.type) /\ toggleOf("hours")
handleDayOfMonthToggle == "daysOfMonth" \in ScheduleFields(cbForm.type) /\ toggleOf("daysOfMonth")
handleMonthToggle == "months" \in ScheduleFields(cbForm.type) /\ toggleOf("months")
handleDayOfWeekToggle == "daysOfWeek" \in ScheduleFields(cbForm.type) /\ toggleOf("daysOfWeek")

setCustom(text) == cbForm.type = "custom" /\ Changed([cbForm EXCEPT !.custom = text])

CbNext ==
    \/ MountBuilder \/ UnmountBuilder
    \/ /\ cbForm # Unmounted
       /\ \/ \E type \in ScheduleTypes : pickType(type)
          \/ handleMinuteToggle \/ handleHourToggle \/ handleDayOfMonthToggle
          \/ handleMonthToggle \/ handleDayOfWeekToggle
          \/ \E text \in CustomTexts : setCustom(text)

CbSpec == CbInit /\ [][CbNext]_cbVars

-----------------------------------------------------------------------------

CbTypeOK == cbForm # Unmounted => cbForm.type \in ScheduleTypes /\ DOMAIN cbForm.lists = Lists

\* A list of the builder names no value twice, however boxes are ticked and schedules parsed, as
\* long as no field of a stored schedule names one twice (handleMinuteToggle and the four beside it).
ListsHoldNoValueTwice ==
    cbForm # Unmounted =>
        \A l \in Lists : IsInjective(cbForm.lists[l]) /\ Len(cbForm.lists[l]) <= CbSize[l]

\* A schedule put together with the builder's buttons is still that schedule
\* however often the editor is closed and opened again, also where the expression
\* is parsed as another type than the one it was made with (all days of a month, a
\* year's) or is not one any more (an empty list).
ScheduleSurvivesReopening == ~cbByHand => trim(cbStored) = trim(cbEntered)
=============================================================================
