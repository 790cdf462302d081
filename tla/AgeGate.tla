------------------------------ MODULE AgeGate -------------------------------
(***************************************************************************)
(* The age gate of a signup, twice: validateAgeGate of the panel with the  *)
(* browser's date, and ValidateSignupAgeGate of the orchestrator with the  *)
(* date in UTC.  A host gives both the same options.                       *)
(*                                                                         *)
(* A date of birth comes from a date input, so it is a day of the          *)
(* calendar or empty, and one of the orchestrator's formats.               *)
(***************************************************************************)
EXTENDS Integers, FiniteSets

CONSTANTS
  Years, DaysOfYear,  \* bound: the days of birth, and the days a signup begins
  MinimumAges,
  NoDate

VARIABLES
  options,      \* SignupAgeGateOptions, enabled
  dateOfBirth, confirmed,  \* what the user has entered
  local, today  \* the date in the browser, and in UTC

ageVars == <<options, dateOfBirth, confirmed, local, today>>

Date(year, month, day) == [year |-> year, month |-> month, day |-> day]

IsLeap(y) == y % 4 = 0 /\ (y % 100 # 0 \/ y % 400 = 0)

MonthLength(m, leap) ==
  CASE m = 2 -> IF leap THEN 29 ELSE 28
    [] m \in {4, 6, 9, 11} -> 30
    [] OTHER -> 31

DaysIn(y, m) == MonthLength(m, IsLeap(y))

Dates == {d \in {Date(y, s[1], s[2]) : y \in Years, s \in DaysOfYear} :
            d.day <= DaysIn(d.year, d.month)}

\* A host cannot ask for no age at all (BrighterToolsAuthOptionsValidator.cs:38).
ASSUME AgeConstantsOK ==
  /\ Years \subseteq Int
  /\ DaysOfYear \subseteq {s \in (1..12) \X (1..31) : s[2] <= MonthLength(s[1], TRUE)}
  /\ MinimumAges \subseteq Nat \ {0}
  /\ NoDate \notin Dates

Before(a, b) ==
  \/ a.year < b.year
  \/ a.year = b.year /\ a.month < b.month
  \/ a.year = b.year /\ a.month = b.month /\ a.day < b.day

Tomorrow(t) ==
  CASE t.day < DaysIn(t.year, t.month) -> [t EXCEPT !.day = @ + 1]
    [] t.day = DaysIn(t.year, t.month) /\ t.month < 12 -> Date(t.year, t.month + 1, 1)
    [] OTHER -> Date(t.year + 1, 1, 1)

GateTypeOK ==
  /\ options \in [minimumAge: MinimumAges, requireDateOfBirth: BOOLEAN,
                  requireMinimumAgeConfirmation: BOOLEAN]
  /\ dateOfBirth \in Dates \cup {NoDate}
  /\ confirmed \in BOOLEAN
  /\ {local, today} \subseteq Dates \cup {Tomorrow(d) : d \in Dates}
                            \cup {Tomorrow(Tomorrow(d)) : d \in Dates}

\* Somewhere it is tomorrow already, and elsewhere still today.
GateInit ==
  /\ options \in [minimumAge: MinimumAges, requireDateOfBirth: BOOLEAN,
                  requireMinimumAgeConfirmation: BOOLEAN]
  /\ dateOfBirth = NoDate /\ confirmed = FALSE
  /\ \E d \in Dates :
       \/ local = d /\ today = d
       \/ local = d /\ today = Tomorrow(d)
       \/ local = Tomorrow(d) /\ today = d

-----------------------------------------------------------------------------
(***************************************************************************)
(* The orchestrator (653-691).                                             *)
(***************************************************************************)

\* Variant: a day that the earlier year does not have becomes the next one.
YearsBefore_RollsOver(t, n) ==
  IF t.day <= DaysIn(t.year - n, t.month)
  THEN [t EXCEPT !.year = @ - n]
  ELSE Date(t.year - n, t.month + 1, 1)

\* DateTime.AddYears with a negative number: it becomes the last day of the month.
YearsBefore(t, n) ==
  LET last == DaysIn(t.year - n, t.month)
  IN Date(t.year - n, t.month, IF t.day > last THEN last ELSE t.day)

BornEarlyEnough(t) == ~Before(YearsBefore(t, options.minimumAge), dateOfBirth)

ValidateSignupAgeGate(t) ==
  /\ options.requireMinimumAgeConfirmation => confirmed
  /\ options.requireDateOfBirth => dateOfBirth # NoDate
  /\ dateOfBirth # NoDate => BornEarlyEnough(t)

-----------------------------------------------------------------------------
(***************************************************************************)
(* The panel.                                                              *)
(***************************************************************************)

\* Variant: the month of birth has to be over.
GetAge_ByMonth(t) ==
  t.year - dateOfBirth.year - (IF t.month <= dateOfBirth.month THEN 1 ELSE 0)

GetAge(t) ==
  t.year - dateOfBirth.year
  - (IF \/ t.month < dateOfBirth.month
        \/ t.month = dateOfBirth.month /\ t.day < dateOfBirth.day THEN 1 ELSE 0)

\* Variant: the date is looked at only where it is required.
ValidateAgeGate_IfRequired(t) ==
  /\ options.requireDateOfBirth =>
       dateOfBirth # NoDate /\ GetAge(t) >= options.minimumAge
  /\ options.requireMinimumAgeConfirmation => confirmed

ValidateAgeGate(t) ==
  /\ options.requireDateOfBirth => dateOfBirth # NoDate
  /\ dateOfBirth # NoDate => GetAge(t) >= options.minimumAge
  /\ options.requireMinimumAgeConfirmation => confirmed

\* The user fills in the form (433-462).
EnterDateOfBirth ==
  /\ dateOfBirth' \in Dates \cup {NoDate}
  /\ UNCHANGED <<options, confirmed, local, today>>

ConfirmMinimumAge ==
  /\ options.requireMinimumAgeConfirmation
  /\ confirmed' = ~confirmed
  /\ UNCHANGED <<options, dateOfBirth, local, today>>

\* A day passes before the form is sent, or sent again.
DayPasses ==
  /\ local \in Dates
  /\ local' = Tomorrow(local)
  /\ today' = Tomorrow(today)
  /\ UNCHANGED <<options, dateOfBirth, confirmed>>

GateNext == EnterDateOfBirth \/ ConfirmMinimumAge \/ DayPasses

GateSpec == GateInit /\ [][GateNext]_ageVars

-----------------------------------------------------------------------------
(***************************************************************************)
(* Properties.                                                             *)
(***************************************************************************)

\* The birthdays since a birth; whoever was born on a 29 February has one on 1 March in
\* a year without that day.
Birthdays(t) ==
  LET Birthday(y) == IF dateOfBirth.day <= DaysIn(y, dateOfBirth.month)
                     THEN [dateOfBirth EXCEPT !.year = y]
                     ELSE Date(y, 3, 1)
  IN Cardinality({y \in (dateOfBirth.year + 1)..t.year : ~Before(t, Birthday(y))})

\* Both sides let in exactly those who have had as many birthdays as the minimum age:
\* the orchestrator, which goes back from today by years (686-687), and the panel, which
\* subtracts years and corrects (139-146), agree with counting them one by one.
AgeCountsBirthdays ==
  dateOfBirth # NoDate =>
    /\ BornEarlyEnough(today) <=> Birthdays(today) >= options.minimumAge
    /\ GetAge(local) >= options.minimumAge <=> Birthdays(local) >= options.minimumAge

\* A user whom the panel lets through is let through by the orchestrator, at once where
\* the dates agree and on the next day at the latest, although one goes by the browser's
\* date and the other by UTC (139, 686); and the panel stops nobody whom the orchestrator
\* would have let in a day before.
GatesAgree ==
  /\ ValidateAgeGate(local) => ValidateSignupAgeGate(Tomorrow(today))
  /\ ValidateSignupAgeGate(today) => ValidateAgeGate(Tomorrow(local))
  /\ local = today => (ValidateAgeGate(local) <=> ValidateSignupAgeGate(today))

=============================================================================
