----------------------------- MODULE SystemPage -----------------------------
(***************************************************************************)
(* The page of the configuration and the logs (app/system/page.tsx).  The  *)
(* form has what the server answered when the page was mounted, or nothing *)
(* if it did not; a save sends every field but the token, whose text is    *)
(* masked, and the server writes one key after the other.  The logs are    *)
(* loaded anew whenever a filter changes.                                  *)
(*                                                                         *)
(* Capital and risk are one field.  The tab of the health checks, which    *)
(* shows one answer after the other, and the messages are left out.        *)
(***************************************************************************)
EXTENDS PageCalls

CONSTANTS
    Levels, Modules,  \* of the lines of the log
    All               \* the filter that is none

VARIABLES
    page,         \* the state of the component
    loads,        \* loads in flight, in the order they were sent
    calls,        \* the save and the test in flight
    server,       \* system_config and system_logs
    behind,       \* observer: a load of the logs was answered before an older one
    typed,        \* observer: the fields whose text is the user's
    blind         \* observer: the configuration could not be loaded

observed == <<behind, typed, blind>>
vars == <<page, loads, calls, server, observed, bounds>>

Fields == {"capital", "token", "chat"}

(* A token that is shown is masked; an empty capital is the number zero.   *)
Texts == {"", "0", "stored", "edited", "mask"}
Form == [Fields -> Texts]
Blank == [f \in Fields |-> ""]
ConfigKeys == <<"capital", "chat", "token">>

Log == [level: Levels, module: Modules]
Filter == [level: Levels \cup {All}, module: Modules \cup {All}]
NoFilter == [level |-> All, module |-> All]

Page == [activeTab: {"config", "logs"}, form: Form, maskedToken: Texts, configLoading: BOOLEAN,
         saving: BOOLEAN, testing: BOOLEAN, filter: Filter, logs: SUBSET Log,
         logsLoading: BOOLEAN, logsError: BOOLEAN, reload: BOOLEAN]
Load == [kind: {"config", "logs"}, filter: Filter, served: BOOLEAN, form: Form, logs: SUBSET Log]
Call == [kind: {"save", "test"}, keys: SUBSET Fields, form: Form,
         answer: {"pending", "done", "failed"}]

NewLoad(kind, filter) ==
    [kind |-> kind, filter |-> filter, served |-> FALSE, form |-> Blank, logs |-> {}]

Mask(token) == IF token = "" THEN "" ELSE "mask"

Send(kind, keys, form) ==
    calls' = Append(calls, [kind |-> kind, keys |-> keys, form |-> form, answer |-> "pending"])

-----------------------------------------------------------------------------
(* What the server answers.                                                *)
GetAllConfig(config) == [config EXCEPT !["token"] = Mask(@)]

ListLogs(filter) ==
    {l \in server.logs : filter.level \in {All, l.level} /\ filter.module \in {All, l.module}}

Serve(i) ==
    /\ ~loads[i].served
    /\ loads' = [loads EXCEPT ![i].served = TRUE,
           ![i].form = IF loads[i].kind = "config" THEN GetAllConfig(server.config) ELSE @,
           ![i].logs = IF loads[i].kind = "logs" THEN ListLogs(loads[i].filter) ELSE @]
    /\ UNCHANGED <<page, calls, server, observed, bounds>>

-----------------------------------------------------------------------------
(* The configuration.                                                      *)
LoadConfigArrives(i) ==
    /\ loads[i].kind = "config" /\ loads[i].served
    /\ page' = [page EXCEPT !.form = loads[i].form, !.maskedToken = loads[i].form["token"],
                            !.configLoading = FALSE]
    /\ loads' = RemoveAt(loads, i)
    /\ UNCHANGED <<calls, server, observed, bounds>>

(* The form is shown, empty.                                               *)
LoadConfigFails(i) ==
    /\ loads[i].kind = "config"
    /\ Fails
    /\ page' = [page EXCEPT !.configLoading = FALSE]
    /\ loads' = RemoveAt(loads, i)
    /\ blind' = TRUE
    /\ UNCHANGED <<calls, server, behind, typed>>

FormShown == page.activeTab = "config" /\ ~page.configLoading

Edit(f, text) ==
    /\ FormShown
    /\ text # page.form[f]
    /\ Clicks
    /\ page' = [page EXCEPT !.form[f] = text]
    /\ typed' = typed \cup {f}
    /\ UNCHANGED <<loads, calls, server, behind, blind>>

Numbered(form) == [form EXCEPT !["capital"] = IF @ = "" THEN "0" ELSE @]

(* Mutant: the token is sent as it is shown.                               *)
HandleSaveMasked ==
    /\ FormShown
    /\ ~page.saving
    /\ Clicks
    /\ page' = [page EXCEPT !.saving = TRUE]
    /\ Send("save", Fields, Numbered(page.form))
    /\ UNCHANGED <<loads, server, observed>>

(* A token that was emptied is refused.                                    *)
HandleSave ==
    /\ FormShown
    /\ ~page.saving
    /\ page.form["token"] = page.maskedToken \/ page.form["token"] # ""
    /\ Clicks
    /\ page' = [page EXCEPT !.saving = TRUE]
    /\ Send("save", IF page.form["token"] = page.maskedToken THEN Fields \ {"token"} ELSE Fields,
            Numbered(page.form))
    /\ UNCHANGED <<loads, server, observed>>

HandleTestTelegram ==
    /\ FormShown
    /\ ~page.testing
    /\ Clicks
    /\ page' = [page EXCEPT !.testing = TRUE]
    /\ Send("test", {}, Blank)
    /\ UNCHANGED <<loads, server, observed>>

(* One commit per key: a save that fails has written the first n.          *)
SetConfigs(call, n) ==
    [server.config EXCEPT !["capital"] = IF n >= 1 THEN call.form["capital"] ELSE @,
                          !["chat"] = IF n >= 2 THEN call.form["chat"] ELSE @,
                          !["token"] = IF n >= 3 /\ "token" \in call.keys
                                       THEN call.form["token"] ELSE @]

UpdateConfig(i) ==
    /\ calls[i].kind = "save" /\ calls[i].answer = "pending"
    /\ \/ /\ Succeeds
          /\ server' = [server EXCEPT !.config = SetConfigs(calls[i], Len(ConfigKeys))]
          /\ calls' = [calls EXCEPT ![i].answer = "done", ![i].form = GetAllConfig(server'.config)]
       \/ /\ Fails
          /\ \E n \in 0 .. Len(ConfigKeys) :
                server' = [server EXCEPT !.config = SetConfigs(calls[i], n)]
          /\ calls' = [calls EXCEPT ![i].answer = "failed"]
    /\ UNCHANGED <<page, loads, observed>>

(* The token and the chat are what the server answers, whatever was typed  *)
(* since the button was pressed; the capital stays.                        *)
Saved(i) ==
    /\ calls[i].kind = "save" /\ calls[i].answer # "pending"
    /\ IF calls[i].answer = "done"
       THEN /\ page' = [page EXCEPT !.form["token"] = calls[i].form["token"],
                                    !.form["chat"] = calls[i].form["chat"],
                                    !.maskedToken = calls[i].form["token"],
                                    !.saving = FALSE]
            /\ typed' = typed \cap {"capital"}
       ELSE /\ page' = [page EXCEPT !.saving = FALSE]
            /\ UNCHANGED typed
    /\ calls' = RemoveAt(calls, i)
    /\ UNCHANGED <<loads, server, behind, blind, bounds>>

(* The test writes a line of the log.                                      *)
TestTelegram(i) ==
    /\ calls[i].kind = "test" /\ calls[i].answer = "pending"
    /\ \/ /\ Succeeds
          /\ \E l \in Log : server' = [server EXCEPT !.logs = @ \cup {l}]
          /\ calls' = [calls EXCEPT ![i].answer = "done"]
       \/ /\ Fails
          /\ calls' = [calls EXCEPT ![i].answer = "failed"]
          /\ UNCHANGED server
    /\ UNCHANGED <<page, loads, observed>>

TelegramTested(i) ==
    /\ calls[i].kind = "test" /\ calls[i].answer # "pending"
    /\ page' = [page EXCEPT !.testing = FALSE]
    /\ calls' = RemoveAt(calls, i)
    /\ UNCHANGED <<loads, server, observed, bounds>>

-----------------------------------------------------------------------------
(* The logs.                                                               *)
SetActiveTab(tab) ==
    /\ page.activeTab # tab
    /\ page' = [page EXCEPT !.activeTab = tab]
    /\ UNCHANGED <<loads, calls, server, observed, bounds>>

(* The options are the modules of the lines on screen.                     *)
ModuleOptions == {All} \cup {l.module : l \in page.logs}

(* Mutant: the effect depends on the module alone.                         *)
ChangeFilterUnloaded(filter) ==
    /\ page.activeTab = "logs"
    /\ filter.module \in ModuleOptions \cup {page.filter.module}
    /\ filter.level = page.filter.level \/ filter.module = page.filter.module
    /\ filter # page.filter
    /\ Clicks
    /\ page' = [page EXCEPT !.filter = filter, !.reload = @ \/ filter.module # page.filter.module]
    /\ UNCHANGED <<loads, calls, server, observed>>

(* The effect clears its timeout and sets it again.                        *)
ChangeFilter(filter) ==
    /\ page.activeTab = "logs"
    /\ filter.module \in ModuleOptions \cup {page.filter.module}
    /\ filter.level = page.filter.level \/ filter.module = page.filter.module
    /\ filter # page.filter
    /\ Clicks
    /\ page' = [page EXCEPT !.filter = filter, !.reload = TRUE]
    /\ UNCHANGED <<loads, calls, server, observed>>

LoadLogs ==
    /\ page.reload
    /\ page' = [page EXCEPT !.reload = FALSE, !.logsLoading = TRUE]
    /\ loads' = Append(loads, NewLoad("logs", page.filter))
    /\ UNCHANGED <<calls, server, observed, bounds>>

Overtakes(i) == \E o \in 1 .. i - 1 : loads[o].kind = "logs"

LogsArrive(i) ==
    /\ loads[i].kind = "logs" /\ loads[i].served
    /\ page' = [page EXCEPT !.logs = loads[i].logs, !.logsError = FALSE, !.logsLoading = FALSE]
    /\ behind' = (behind \/ Overtakes(i))
    /\ loads' = RemoveAt(loads, i)
    /\ UNCHANGED <<calls, server, typed, blind, bounds>>

LogsFail(i) ==
    /\ loads[i].kind = "logs"
    /\ Fails
    /\ page' = [page EXCEPT !.logsError = TRUE, !.logsLoading = FALSE]
    /\ behind' = (behind \/ Overtakes(i))
    /\ loads' = RemoveAt(loads, i)
    /\ UNCHANGED <<calls, server, typed, blind>>

-----------------------------------------------------------------------------
Init ==
    /\ page = [activeTab |-> "config", form |-> Blank, maskedToken |-> "", configLoading |-> TRUE,
               saving |-> FALSE, testing |-> FALSE, filter |-> NoFilter, logs |-> {},
               logsLoading |-> TRUE, logsError |-> FALSE, reload |-> TRUE]
    /\ loads = <<NewLoad("config", NoFilter)>>
    /\ calls = <<>>
    /\ \E logs \in SUBSET Log :
          server = [config |-> [f \in Fields |-> "stored"], logs |-> logs]
    /\ behind = FALSE /\ typed = {} /\ blind = FALSE
    /\ clicks = 0 /\ failures = 0

Next ==
    \/ \E i \in DOMAIN loads :
          \/ Serve(i) \/ LoadConfigArrives(i) \/ LoadConfigFails(i)
          \/ LogsArrive(i) \/ LogsFail(i)
    \/ \E f \in Fields, text \in {"", "edited"} : Edit(f, text)
    \/ HandleSave
    \/ HandleTestTelegram
    \/ \E i \in DOMAIN calls :
          UpdateConfig(i) \/ Saved(i) \/ TestTelegram(i) \/ TelegramTested(i)
    \/ \E tab \in {"config", "logs"} : SetActiveTab(tab)
    \/ \E filter \in Filter : ChangeFilter(filter)
    \/ LoadLogs

Spec == Init /\ [][Next]_vars

-----------------------------------------------------------------------------
(* The state of the page, its calls and the server keep their types.       *)
TypeOK ==
    /\ page \in Page
    /\ loads \in Seq(Load) /\ calls \in Seq(Call)
    /\ server \in [config: Form, logs: SUBSET Log]
    /\ {behind, blind} \subseteq BOOLEAN /\ typed \subseteq Fields
    /\ clicks \in 0 .. MaxClicks /\ failures \in 0 .. MaxFailures

(* A save changes nothing the user did not type: the other fields go back  *)
(* as they came, and a token that is shown masked is not sent              *)
(* (page.tsx:218, 223), whatever part of a save before was written.  The   *)
(* exception is a form that was never loaded.                              *)
OnlyTheTyped ==
    \A f \in Fields : server'.config[f] # server.config[f] => f \in typed \/ blind
SaveChangesTheTyped == [][OnlyTheTyped]_server

(* The same without the exception: the form whose load failed sends an     *)
(* empty chat and a capital of zero.                                       *)
SaveErasesNothing ==
    [][\A f \in Fields : server'.config[f] # server.config[f] => f \in typed]_server

(* A failure between two commits keeps the token of one account with the   *)
(* chat of another (config_service.py:68).                                 *)
AccountIsWhole ==
    {"token", "chat"} \cap typed = {} => server.config["token"] = server.config["chat"]

(* The lines on screen are those the filters ask for (page.tsx:181): once  *)
(* every load was answered and the page shows no error, every line matches,*)
(* unless an answer was overtaken.  Before that the lines may be those of  *)
(* the filter before, with no spinner: the first answer ends it.           *)
LogsMatchFilter ==
    (/\ ~page.reload
     /\ ~page.logsError
     /\ ~behind
     /\ \A i \in DOMAIN loads : loads[i].kind # "logs") =>
        \A l \in page.logs : page.filter.level \in {All, l.level}
                             /\ page.filter.module \in {All, l.module}

(* The filter that is on is the one the select shows (page.tsx:472): not   *)
(* when no line is left of its module.                                     *)
FilterIsShown == page.filter.module \in ModuleOptions

-----------------------------------------------------------------------------
(***************************************************************************)
(* What makes the properties of the save and of the logs inductive.        *)
(***************************************************************************)
Configs(loading) == {i \in DOMAIN loading : loading[i].kind = "config"}
Saves(calling) == {i \in DOMAIN calling : calling[i].kind = "save"}

(* One load of the configuration, while the spinner turns, and no save     *)
(* until it is answered; one save at a time, while its button waits.       *)
OneLoadThenOneSave ==
    /\ \A i, j \in Configs(loads) : i = j
    /\ \A i, j \in Saves(calls) : i = j
    /\ Configs(loads) # {} => page.configLoading
    /\ Saves(calls) # {} => page.saving /\ ~page.configLoading

(* What was answered is what the server still has.                         *)
AnswersAreFresh ==
    /\ \A i \in Configs(loads) : loads[i].served => loads[i].form = GetAllConfig(server.config)
    /\ \A i \in Saves(calls) : calls[i].answer = "done" =>
           calls[i].form = GetAllConfig(server.config)

(* A field that is not the user's is the server's, on the form and in the  *)
(* save that is under way.                                                 *)
SameOrTyped(fields) ==
    \A f \in {"capital", "chat"} : fields[f] = server.config[f] \/ f \in typed

FormIsHonest ==
    blind \/ page.configLoading
        \/ /\ SameOrTyped(page.form)
           /\ page.form["token"] = page.maskedToken \/ "token" \in typed

SaveIsHonest ==
    blind \/ \A i \in Saves(calls) : calls[i].answer = "pending" =>
        /\ SameOrTyped(calls[i].form)
        /\ "token" \in calls[i].keys => "token" \in typed

CapitalIsANumber ==
    /\ server.config["capital"] # ""
    /\ \A i \in Saves(calls) : calls[i].answer = "pending" => calls[i].form["capital"] # ""

SaveInv ==
    /\ TypeOK
    /\ OneLoadThenOneSave
    /\ AnswersAreFresh
    /\ FormIsHonest
    /\ SaveIsHonest
    /\ CapitalIsANumber

(* Lines that a filter lets through; the last load of the logs is the one  *)
(* of the filters on screen.                                               *)
Match(logs, filter) ==
    \A l \in logs : filter.level \in {All, l.level} /\ filter.module \in {All, l.module}

LogLoads == {i \in DOMAIN loads : loads[i].kind = "logs"}

ServedLogsMatch == \A i \in LogLoads : loads[i].served => Match(loads[i].logs, loads[i].filter)

LastLoadIsOfFilter ==
    \/ behind \/ page.reload
    \/ LogLoads = {} /\ (page.logsError \/ Match(page.logs, page.filter))
    \/ \E i \in LogLoads : loads[i].filter = page.filter /\ \A j \in LogLoads : j <= i

LogsInv == TypeOK /\ ServedLogsMatch /\ LastLoadIsOfFilter
=============================================================================
