----------------------------- MODULE Preferences ----------------------------
(***************************************************************************)
(* What the user prefers, and how it outlives the process: cfg.json, which *)
(* upgrade_cfg reads and writes whole at every change, and cfg.ini, the    *)
(* QSettings.  Both lie in the folder of the version; a new version copies *)
(* the cfg.ini of the one before it and then removes that version's whole  *)
(* folder.  The process may end at any point; all of this is one thread.   *)
(*                                                                         *)
(* Abstracted: the currencies of cfg.json, which Prices has; QSettings,    *)
(* which writes cfg.ini safely; signs and themes.                          *)
(***************************************************************************)
EXTENDS Integers, FiniteSets

CONSTANTS Options,      \* notification, spam filter, post order, static rpcpass
          ShippedOn,    \* those that are on in the cfg.json of the release, or when absent
          Languages, DefaultLanguage,
          Translated,   \* the languages whose translation loads
          SyncDates,    \* seconds, as the date picker stores them
          DefaultDate,
          Checkpoints,  \* of shielded coins: height and time
          BlockTime,    \* blocktime_estimate
          HeightRound,  \* 1000 blocks
          LastVersion,  \* bound: releases
          MaxStarted    \* bound: starts of the process

ASSUME PreferencesAssumption ==
  /\ IsFiniteSet(Options) /\ ShippedOn \subseteq Options
  /\ DefaultLanguage \in Translated /\ Translated \subseteq Languages
  /\ SyncDates \subseteq Int /\ DefaultDate \in SyncDates
  /\ Checkpoints \subseteq [height : Nat, time : Nat]
  /\ BlockTime \in Nat \ {0} /\ HeightRound \in Nat \ {0}
  /\ LastVersion \in Nat \ {0} /\ MaxStarted \in Nat

VARIABLES
  cfgJson,   \* per version: absent, cut, or whole with the options that are on
  cfgIni,    \* per version: absent, cut, or whole with the settings
  config,    \* m_config
  shownLang, \* the installed translator
  running,   \* the version of the process
  startPc,   \* where the process is
  chosen,    \* history: what the user chose, per version
  wanted,    \* history: the settings as the user left them
  excused,   \* history: settings that could not come along
  startedN   \* bound

prefDisk == <<cfgJson, cfgIni>>
prefHistory == <<chosen, wanted, excused>>
prefVars == <<prefDisk, config, shownLang, running, startPc, prefHistory, startedN>>

Versions == 1..LastVersion
Settings == [lang : Languages, useSync : BOOLEAN, date : SyncDates]
DefaultSettings == [lang |-> DefaultLanguage, useSync |-> FALSE, date |-> DefaultDate]

NoJson == [state |-> "absent", on |-> {}]
NoIni  == [state |-> "absent", settings |-> DefaultSettings]
Whole(on) == [state |-> "whole", on |-> on]

PrefInit ==
  /\ cfgJson = [v \in Versions |-> NoJson] /\ cfgIni = [v \in Versions |-> NoIni]
  /\ config = {} /\ shownLang = DefaultLanguage
  /\ running = 1 /\ startPc = "down"
  /\ chosen = [v \in Versions |-> ShippedOn]
  /\ wanted = DefaultSettings /\ excused = FALSE /\ startedN = 0

-----------------------------------------------------------------------------
(* run_app.                                                                *)

\* The user starts the release he had or a later one.
Start(v) ==
  /\ startPc = "down" /\ startedN < MaxStarted /\ startedN' = startedN + 1
  /\ v >= running /\ running' = v /\ startPc' = "settings"
  /\ UNCHANGED <<prefDisk, config, shownLang, prefHistory>>

\* check_settings_reconfiguration: get_precedent_raw_version is the release before.
HasPrevious == running > 1 /\ cfgIni[running - 1].state # "absent"
ToBeCopied == HasPrevious /\ cfgIni[running].state = "absent"

\* A release that was left out leaves its settings where they are.
NothingToCopy ==
  /\ startPc = "settings" /\ ~ToBeCopied /\ startPc' = "load"
  /\ excused' = (excused \/ /\ cfgIni[running].state = "absent"
                            /\ \E v \in Versions : cfgIni[v].state # "absent")
  /\ UNCHANGED <<prefDisk, config, shownLang, running, chosen, wanted, startedN>>

BeginCopy ==
  /\ startPc = "settings" /\ ToBeCopied /\ startPc' = "copying"
  /\ cfgIni' = [cfgIni EXCEPT ![running].state = "cut"]
  /\ UNCHANGED <<cfgJson, config, shownLang, running, prefHistory, startedN>>

EndCopy ==
  /\ startPc = "copying" /\ startPc' = "remove"
  /\ cfgIni' = [cfgIni EXCEPT ![running] = cfgIni[running - 1]]
  /\ UNCHANGED <<cfgJson, config, shownLang, running, prefHistory, startedN>>

\* The error is logged, and the old folder removed all the same.
CopyFails ==
  /\ startPc = "copying" /\ startPc' = "remove"
  /\ cfgIni' = [cfgIni EXCEPT ![running] = NoIni]
  /\ excused' = TRUE
  /\ UNCHANGED <<cfgJson, config, shownLang, running, chosen, wanted, startedN>>

RemovePrevious ==
  /\ startPc = "remove" /\ startPc' = "load"
  /\ cfgIni' = [cfgIni EXCEPT ![running - 1] = NoIni]
  /\ cfgJson' = [cfgJson EXCEPT ![running - 1] = NoJson]
  /\ chosen' = [chosen EXCEPT ![running - 1] = ShippedOn]
  /\ UNCHANGED <<config, shownLang, running, wanted, excused, startedN>>

\* handle_settings creates what is not there, which is all of a file cut short.
MutHandleSettings(ini) == [state |-> "whole", settings |-> DefaultSettings]
handle_settings(ini) ==
  [state |-> "whole", settings |-> IF ini.state = "whole" THEN ini.settings ELSE DefaultSettings]

\* set_current_lang stores the language before it tries to load it.
LangShown(lang) == IF lang \in Translated THEN lang ELSE shownLang
MutInitLang(lang) == shownLang
init_lang(lang) == LangShown(lang)

\* load_cfg, and then the settings and the language.
load_cfg ==
  /\ startPc = "load" /\ cfgJson[running].state # "cut" /\ startPc' = "up"
  /\ LET json == IF cfgJson[running].state = "absent" THEN Whole(ShippedOn) ELSE cfgJson[running]
     IN  cfgJson' = [cfgJson EXCEPT ![running] = json] /\ config' = json.on
  /\ cfgIni' = [cfgIni EXCEPT ![running] = handle_settings(@)]
  /\ shownLang' = init_lang(handle_settings(cfgIni[running]).settings.lang)
  /\ UNCHANGED <<running, prefHistory, startedN>>

\* A cfg.json that does not parse throws out of run_app: at this start and at all
\* later ones of this version.
LoadThrows ==
  /\ startPc = "load" /\ cfgJson[running].state = "cut" /\ startPc' = "down"
  /\ UNCHANGED <<prefDisk, config, shownLang, running, prefHistory, startedN>>

\* A choice that was not yet written is one the user finds unmade.
Ended ==
  /\ startPc # "down" /\ startPc' = "down"
  /\ config' = {} /\ shownLang' = DefaultLanguage
  /\ chosen' = IF startPc = "truncate" THEN [chosen EXCEPT ![running] = cfgJson[running].on] ELSE chosen
  /\ excused' = (excused \/ startPc = "copying")
  /\ UNCHANGED <<prefDisk, running, wanted, startedN>>

-----------------------------------------------------------------------------
(* The settings page.                                                      *)

\* change_*_status: only a change is written.
MutOn(o, on) == ShippedOn \cup (IF on THEN {o} ELSE {})
On(o, on) == IF on THEN config \cup {o} ELSE config \ {o}
change_status(o, on) ==
  /\ startPc = "up" /\ on # (o \in config)
  /\ config' = On(o, on)
  /\ chosen' = [chosen EXCEPT ![running] = IF on THEN @ \cup {o} ELSE @ \ {o}]
  /\ startPc' = "truncate"
  /\ UNCHANGED <<prefDisk, shownLang, running, wanted, excused, startedN>>

\* upgrade_cfg reads the file, truncates it, and writes it with all options set.
Truncate ==
  /\ startPc = "truncate" /\ startPc' = "fill"
  /\ cfgJson' = [cfgJson EXCEPT ![running] = [state |-> "cut", on |-> {}]]
  /\ UNCHANGED <<cfgIni, config, shownLang, running, prefHistory, startedN>>
MutWritten == config \cap ShippedOn
Written == config
Fill ==
  /\ startPc = "fill" /\ startPc' = "up"
  /\ cfgJson' = [cfgJson EXCEPT ![running] = Whole(Written)]
  /\ UNCHANGED <<cfgIni, config, shownLang, running, prefHistory, startedN>>

\* application::reset_coin_cfg takes cfg.json along, and restarts.
reset_cfg_json ==
  /\ startPc = "up" /\ startPc' = "down"
  /\ cfgJson' = [cfgJson EXCEPT ![running] = NoJson]
  /\ chosen' = [chosen EXCEPT ![running] = ShippedOn]
  /\ config' = {} /\ shownLang' = DefaultLanguage
  /\ UNCHANGED <<cfgIni, running, wanted, excused, startedN>>

\* The language, and from SettingModal the use of the sync date and the date.
ChangeSettings(s) ==
  /\ startPc = "up" /\ s # cfgIni[running].settings
  /\ cfgIni' = [cfgIni EXCEPT ![running].settings = s]
  /\ wanted' = s
  /\ shownLang' = IF s.lang # cfgIni[running].settings.lang THEN LangShown(s.lang) ELSE shownLang
  /\ UNCHANGED <<cfgJson, config, running, startPc, chosen, excused, startedN>>
OneSetting(s) ==
  Cardinality({f \in DOMAIN s : s[f] # cfgIni[running].settings[f]}) = 1

PrefNext ==
  \/ \E v \in Versions : Start(v)
  \/ NothingToCopy \/ BeginCopy \/ EndCopy \/ CopyFails \/ RemovePrevious
  \/ load_cfg \/ LoadThrows \/ Ended
  \/ \E o \in Options, on \in BOOLEAN : change_status(o, on)
  \/ Truncate \/ Fill \/ reset_cfg_json
  \/ \E s \in Settings : OneSetting(s) /\ ChangeSettings(s)

-----------------------------------------------------------------------------
(* The height from which a shielded coin is scanned.                       *)

\* static_cast<int> of a quotient of ints: the division truncates toward zero.
DivTrunc(a, b) == IF a >= 0 THEN a \div b ELSE -((-a) \div b)
MutHeight(date, cp) == cp.height + (((date - cp.time) \div BlockTime) \div HeightRound) * HeightRound
get_pirate_sync_height(date, cp) ==
  LET rounded == DivTrunc(DivTrunc(date - cp.time, BlockTime), HeightRound) * HeightRound
      height  == cp.height + rounded
  IN  IF cp.height = 0 \/ height < 0 THEN 0 ELSE height

-----------------------------------------------------------------------------
PrefTypeOK ==
  /\ cfgJson \in [Versions -> [state : {"absent", "cut", "whole"}, on : SUBSET Options]]
  /\ cfgIni \in [Versions -> [state : {"absent", "cut", "whole"}, settings : Settings]]
  /\ config \subseteq Options /\ shownLang \in Translated /\ running \in Versions
  /\ startPc \in {"down", "settings", "copying", "remove", "load", "up", "truncate", "fill"}
  /\ chosen \in [Versions -> SUBSET Options] /\ wanted \in Settings /\ excused \in BOOLEAN

\* What the pages show is what the user chose in this version, through any number
\* of changes, of ends of the process and of starts.
ChoicesSurvive == startPc = "up" => config = chosen[running]

\* The settings go with the user from version to version, but for a copy that
\* failed or was cut off and for a version left out.
SettingsComeAlong ==
  startPc = "up" /\ ~excused =>
    cfgIni[running].state = "whole" /\ cfgIni[running].settings = wanted

\* The language of the settings is the one shown, whenever it can be loaded.
LanguageIsShown ==
  startPc = "up" /\ cfgIni[running].settings.lang \in Translated =>
    shownLang = cfgIni[running].settings.lang

\* A date after the checkpoint gives a height that no estimate puts later than the
\* date, and less than one rounding earlier; a date before it is rounded the other
\* way, toward the checkpoint, unless the chain began later: the scan may begin after
\* the date.
SyncHeightIsNear ==
  startPc = "up" /\ cfgIni[running].settings.useSync =>
    \A cp \in {c \in Checkpoints : c.height > 0} :
      LET date == cfgIni[running].settings.date
          off  == get_pirate_sync_height(date, cp) - cp.height
      IN  /\ off >= -cp.height
          /\ date >= cp.time => /\ off * BlockTime <= date - cp.time
                                /\ (off + HeightRound) * BlockTime > date - cp.time
          /\ date < cp.time => /\ off <= 0
                               /\ off # -cp.height => /\ off * BlockTime >= date - cp.time
                                                      /\ (off - HeightRound) * BlockTime < date - cp.time

\* What the user chose in settings_page survives changes, ends and new versions of the
\* program, is what is shown, and gives a start height on the right side of its date.
PreferencesAreKept ==
  ChoicesSurvive /\ SettingsComeAlong /\ LanguageIsShown /\ SyncHeightIsNear
=============================================================================
