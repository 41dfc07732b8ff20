--------------------------- MODULE InstanceSettings ---------------------------
(* ConfigurationService over InstanceConfigStore: every process of an instance  *)
(* keeps a copy of the stored OAuth applications and license key, and reads     *)
(* them again when SQLite's data_version says that somebody else wrote.         *)
EXTENDS Naturals, Sequences, FiniteSets, FiniteSetsExt

CONSTANTS Readers,        \* processes with a ConfigurationService
          Importers,      \* migrations, each made once
          Values, NoValue,
          MaxWrites       \* bound: a change begins while there were fewer commits

ASSUME SettingsConstants ==
    MaxWrites \in Nat /\ Values # {} /\ NoValue \notin Values /\ Readers \cap Importers = {}

\* The license key is kept like the Google application, which stands for it.
Settings == <<"google", "microsoft">>
NamedSettings(values) == [google |-> values[1], microsoft |-> values[2]]

VARIABLES stored,         \* rows of instance_settings
          writes,         \* commits of each process
          fixed,          \* settings that a process's environment controls
          cached, observed,   \* the copy, and the data_version it was read at
          doing,          \* what a process is at
          pin,            \* the application in an old Outlook account's credentials
          before,         \* history: the application that account was connected with
          overwritten     \* history: a migration replaced the stored application

settingVars == <<stored, writes, fixed, cached, observed, doing, pin, before, overwritten>>

SettingNames == {"google", "microsoft"}
AnyValue == Values \cup {NoValue}
Snapshots == [SettingNames -> AnyValue]
Idling == [at |-> "idle", version |-> NoValue, got |-> << >>, setting |-> "google", value |-> NoValue]

\* What a process sees of the commits: those of all others.
Versions(p) == [(Readers \cup Importers) \ {p} -> Nat]

Doings(p) == [at : {"idle", "reading", "refreshing", "pinning", "saving"},
              version : Versions(p) \cup {NoValue}, got : Seq(AnyValue),
              setting : SettingNames, value : AnyValue]

SettingsTypeOK ==
    /\ stored \in Snapshots /\ writes \in [Readers \cup Importers -> Nat]
    /\ fixed \in [Readers -> SUBSET SettingNames] /\ cached \in [Readers -> Snapshots]
    /\ pin \in AnyValue /\ before \in AnyValue /\ overwritten \in BOOLEAN
    /\ DOMAIN observed = Readers /\ doing = [p \in Readers |-> doing[p]]
    /\ \A p \in Readers :
          observed[p] \in Versions(p) /\ doing[p] \in Doings(p) /\ Len(doing[p].got) <= Len(Settings)

\* The built-in or environment's application counts as NoValue: it does not change.
Effective(p) == [s \in SettingNames |-> IF s \in fixed[p] THEN NoValue ELSE stored[s]]
(* PRAGMA data_version changes with the commits of other connections alone:    *)
(* two versions are the same where none of the others has committed between.   *)
DataVersion(p) == [q \in (Readers \cup Importers) \ {p} |-> writes[q]]

InstanceSettingsInit ==
    /\ stored = [s \in SettingNames |-> NoValue] \/ stored = [s \in SettingNames |-> CHOOSE v \in Values : TRUE]
    /\ writes = [q \in Readers \cup Importers |-> 0]
    /\ fixed \in [Readers -> {{}, {"microsoft"}}]
    /\ cached = [p \in Readers |-> Effective(p)] /\ observed = [p \in Readers |-> DataVersion(p)]
    /\ doing = [p \in Readers |-> Idling]
    /\ pin = NoValue /\ before = stored["microsoft"] /\ overwritten = FALSE

-----------------------------------------------------------------------------
\* reload(): the version, the reads, and the version again.
Reading(p, at) == [at |-> at, version |-> DataVersion(p), got |-> << >>,
                   setting |-> doing[p].setting, value |-> doing[p].value]
ReadOne(p) ==
    /\ doing[p].at \in {"reading", "refreshing"} /\ Len(doing[p].got) < Len(Settings)
    /\ doing' = [doing EXCEPT ![p].got = Append(@, Effective(p)[Settings[Len(@) + 1]])]
    /\ UNCHANGED <<stored, writes, fixed, cached, observed, pin, before, overwritten>>
ReadWhole(p) == Len(doing[p].got) = Len(Settings)
SameVersionUnchecked(p) == TRUE
SameVersion(p) == doing[p].version = DataVersion(p)
ReadAgain(p) ==
    /\ ReadWhole(p) /\ ~SameVersion(p)
    /\ doing' = [doing EXCEPT ![p] = Reading(p, doing[p].at)]
    /\ UNCHANGED <<stored, writes, fixed, cached, observed, pin, before, overwritten>>
Reloaded(p) ==
    /\ ReadWhole(p) /\ SameVersion(p)
    /\ cached' = [cached EXCEPT ![p] = NamedSettings(doing[p].got)]
    /\ observed' = [observed EXCEPT ![p] = doing[p].version]
    /\ doing' = [doing EXCEPT ![p] = IF @.at = "refreshing" THEN [@ EXCEPT !.at = "pinning", !.got = << >>]
                                     ELSE Idling]
    /\ UNCHANGED <<stored, writes, fixed, pin, before, overwritten>>

(* A getter of the configuration, where somebody else wrote since. *)
RefreshIfChanged(p) ==
    /\ doing[p] = Idling /\ observed[p] # DataVersion(p)
    /\ doing' = [doing EXCEPT ![p] = Reading(p, "reading")]
    /\ UNCHANGED <<stored, writes, fixed, cached, observed, pin, before, overwritten>>

-----------------------------------------------------------------------------
Free(p, s) == s \notin fixed[p] /\ MapThenSumSet(LAMBDA q : writes[q], Readers) < MaxWrites
\* setGoogle(), resetGoogle(), setLicenseKey(), removeLicenseKey().
Store(p, s, v) ==
    /\ doing[p] = Idling /\ Free(p, s) /\ s # "microsoft"
    /\ stored' = [stored EXCEPT ![s] = v] /\ writes' = [writes EXCEPT ![p] = @ + 1]
    /\ doing' = [doing EXCEPT ![p] = Reading(p, "reading")]
    /\ UNCHANGED <<fixed, cached, observed, pin, before, overwritten>>
\* setMicrosoft() and resetMicrosoft(): the accounts without an application of
\* their own get the present one first.
ChangeMicrosoft(p, v) ==
    /\ doing[p] = Idling /\ Free(p, "microsoft")
    /\ doing' = [doing EXCEPT ![p] =
         [(IF observed[p] # DataVersion(p) THEN Reading(p, "refreshing") ELSE [Idling EXCEPT !.at = "pinning"])
            EXCEPT !.setting = "microsoft", !.value = v]]
    /\ UNCHANGED <<stored, writes, fixed, cached, observed, pin, before, overwritten>>
PinsNothing(p) ==
    /\ doing[p].at = "pinning"
    /\ doing' = [doing EXCEPT ![p].at = "saving"]
    /\ UNCHANGED <<stored, writes, fixed, cached, observed, pin, before, overwritten>>
PinAccounts(p) ==
    /\ doing[p].at = "pinning"
    /\ pin' = (IF pin = NoValue THEN cached[p]["microsoft"] ELSE pin)
    /\ writes' = [writes EXCEPT ![p] = @ + (IF pin' # pin THEN 1 ELSE 0)]
    /\ doing' = [doing EXCEPT ![p].at = "saving"]
    /\ UNCHANGED <<stored, fixed, cached, observed, before, overwritten>>
SaveMicrosoft(p) ==
    /\ doing[p].at = "saving"
    /\ stored' = [stored EXCEPT !["microsoft"] = doing[p].value]
    /\ writes' = [writes EXCEPT ![p] = @ + 1]
    /\ doing' = [doing EXCEPT ![p] = Reading(p, "reading")]
    /\ UNCHANGED <<fixed, cached, observed, pin, before, overwritten>>

(* importInstanceValues() of a migration stores all it brings in one            *)
(* transaction, and leaves the accounts alone.                                  *)
ImportValues(m, values) ==
    /\ writes[m] = 0
    /\ stored' = [s \in SettingNames |-> IF values[s] = NoValue THEN stored[s] ELSE values[s]]
    /\ writes' = [writes EXCEPT ![m] = 1]
    /\ overwritten' = (overwritten \/ stored'["microsoft"] # stored["microsoft"])
    /\ UNCHANGED <<fixed, cached, observed, doing, pin, before>>

InstanceSettingsNext ==
    \/ \E p \in Readers :
          \/ ReadOne(p) \/ ReadAgain(p) \/ Reloaded(p) \/ RefreshIfChanged(p) \/ PinAccounts(p) \/ SaveMicrosoft(p)
          \/ \E s \in SettingNames, v \in AnyValue : Store(p, s, v)
          \/ \E v \in AnyValue : ChangeMicrosoft(p, v)
    \/ \E m \in Importers, values \in Snapshots : ImportValues(m, values)
InstanceSettingsSpec == InstanceSettingsInit /\ [][InstanceSettingsNext]_settingVars

-----------------------------------------------------------------------------
(* What a process has just read is what is stored, all of it from one moment,  *)
(* and stays so until it sees a newer version: settings take effect in every   *)
(* process without a restart.                                                  *)
Agreed(p) == doing[p].at \in {"idle", "pinning"}
SettingsTakeEffect ==
    [][\A p \in Readers :
          Agreed(p)' /\ (ReadWhole(p) \/ (observed[p] = DataVersion(p))') => (cached[p] = Effective(p))']_settingVars

(* An Outlook account from before applications were kept with the account goes *)
(* on with the one it was connected with, however the stored one is replaced,  *)
(* unless a migration replaced it.                                             *)
AccountsKeepTheirApp ==
    before # NoValue /\ ~overwritten => (IF pin # NoValue THEN pin ELSE stored["microsoft"]) = before
=============================================================================
