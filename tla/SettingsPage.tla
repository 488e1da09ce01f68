----------------------------- MODULE SettingsPage -----------------------------
(***************************************************************************)
(* The settings page of one browser tab (GroupSettings.vue) with the       *)
(* dialog for the account of the group (GroupContributionPaymentModal.vue) *)
(* and the panel that links a chat (WhatsappGroupLink.vue).                *)
(*                                                                         *)
(* Each runs one chain of requests at a time (so does the page itself):    *)
(* chainPc[k] names the request chain k waits for, chainLoc[k] what it was *)
(* sent with.  A request is served and answered in one step, at any later  *)
(* time.  Values are told apart by the group they belong to: a form never  *)
(* filled holds None.                                                      *)
(***************************************************************************)
EXTENDS Tab, Naturals

CONSTANT MaxPresses     \* bound on what the user does

ASSUME PressesAssumption == MaxPresses \in Nat

VARIABLES
    settings,   \* the server: whose values each group has
    account,    \* whose account it has, None: none of its own
    link,       \* whether it has a chat
    locked,     \* the groups with an active cycle
    page,       \* new, open, or left
    url,        \* the group in the URL
    store,      \* groups.current
    form,       \* whose values the form holds
    payment,    \* groupPayment: whose account the page has loaded
    dialog,     \* closed, or whose account is in it
    panel,      \* linkInfo, and the group it was loaded for
    stage,      \* the panel asks for a chat, or for a code
    chainPc, chainLoc,
    presses,
    moved       \* auxiliary: another group was picked on this page

server == <<settings, account, link, locked>>
shown == <<store, form, payment, dialog, panel, stage>>
chains == <<chainPc, chainLoc>>
settingsVars == <<server, page, url, shown, chains, presses, moved>>

Chains == {"page", "form", "dialog", "panel"}
ChainSteps == {"idle", "mine", "group", "payments", "save", "again", "list", "pay", "reload",
               "info", "chats", "send", "verify", "unlink", "status", "refetch"}
LinkState == {"none", "pending", "linked"}
Closed == "closed"

\* What the fields of the form are filled with.
Form == Groups \cup {None}

\* The group a request is for, and what it brings.
ChainLocals == [group : Groups \cup {None}, value : Groups \cup {None}]
NoLocals == [group |-> None, value |-> None]

SettingsTypeOK ==
    /\ settings \in [Groups -> Groups \cup {None}]
    /\ account \in [Groups -> Groups \cup {None}]
    /\ link \in [Groups -> LinkState]
    /\ locked \in SUBSET Groups
    /\ page \in {"new", "open", "left"}
    /\ url \in Groups
    /\ form \in Form
    /\ {store, payment} \subseteq Groups \cup {None}
    /\ dialog \in Groups \cup {None, Closed}
    /\ panel \in [group : Groups, link : LinkState] \cup {None}
    /\ stage \in {"pick", "verify"}
    /\ chainPc \in [Chains -> ChainSteps] /\ chainLoc \in [Chains -> ChainLocals]
    /\ presses \in 0 .. MaxPresses /\ moved \in BOOLEAN

\* The store may still hold the group of the page the user comes from.
SettingsInit ==
    /\ settings = [g \in Groups |-> g]
    /\ account \in {[g \in Groups |-> IF g \in own THEN g ELSE None] : own \in SUBSET Groups}
    /\ link = [g \in Groups |-> "none"]
    /\ locked \in SUBSET Groups
    /\ page = "new" /\ url \in Groups
    /\ store \in Groups \cup {None}
    /\ form = None /\ payment = None /\ dialog = Closed
    /\ panel = None /\ stage = "pick"
    /\ chainPc = [k \in Chains |-> "idle"] /\ chainLoc = [k \in Chains |-> NoLocals]
    /\ presses = 0 /\ moved = FALSE

Await(k, step, g, value) ==
    /\ chainPc' = [chainPc EXCEPT ![k] = step]
    /\ chainLoc' = [chainLoc EXCEPT ![k] = [group |-> g, value |-> value]]

EndChain(k) == Await(k, "idle", None, None)

\* The panel is part of the form, which is hidden while there is no group; each
\* time it appears it loads what it shows.  One step of the page, k, goes on
\* with `step', or ends.
ShowForm(k, step) ==
    /\ chainPc' = [chainPc EXCEPT ![k] = step, !["panel"] = "info"]
    /\ chainLoc' = [chainLoc EXCEPT ![k] = [group |-> url, value |-> None],
                          !["panel"] = [group |-> url, value |-> None]]
    /\ panel' = None /\ stage' = "pick"

Press == page = "open" /\ presses < MaxPresses /\ presses' = presses + 1

-----------------------------------------------------------------------------
(* The page: onMounted, and the picker, which keeps it.                      *)

Mount ==
    /\ page = "new" /\ page' = "open"
    /\ IF store = None THEN Await("page", "mine", url, None) /\ UNCHANGED <<panel, stage>>
       ELSE ShowForm("page", "mine")
    /\ UNCHANGED <<server, url, store, form, payment, dialog, presses, moved>>

Pick(g) ==
    /\ Press /\ g # url
    /\ url' = g /\ moved' = TRUE
    /\ UNCHANGED <<server, page, shown, chains>>

\* Slip: fetchOne is not waited for.
AnsweredMineAtOnce ==
    /\ chainPc["page"] = "mine"
    /\ Await("page", "payments", url, None)
    /\ UNCHANGED <<server, page, url, shown, presses, moved>>

\* Answered or not, fetchMine is followed by fetchOne, which forgets the group.
AnsweredMine ==
    /\ chainPc["page"] = "mine"
    /\ store' = None
    /\ Await("page", "group", url, None)
    /\ UNCHANGED <<server, page, url, form, payment, dialog, panel, stage, presses, moved>>

AnsweredGroup ==
    /\ chainPc["page"] = "group"
    /\ store' = chainLoc["page"].group
    /\ ShowForm("page", "payments")
    /\ UNCHANGED <<server, page, url, form, payment, dialog, presses, moved>>

\* The form is filled with the group of the store, if there is one by then.
Fill == IF store # None THEN store ELSE form

\* What a dialog that is open holds once an account has been loaded.
Initial(a) == IF dialog # Closed /\ a # None THEN a ELSE dialog

TakePayments ==
    LET a == account[chainLoc["page"].group] IN
    /\ chainPc["page"] = "payments"
    /\ payment' = a /\ dialog' = Initial(a)
    /\ form' = Fill
    /\ EndChain("page")
    /\ UNCHANGED <<server, page, url, store, panel, stage, presses, moved>>

\* Without its group the page is left; without the accounts it stays as it is.
LosePage ==
    /\ chainPc["page"] \in {"group", "payments"}
    /\ page' = IF chainPc["page"] = "group" THEN "left" ELSE page
    /\ EndChain("page")
    /\ UNCHANGED <<server, url, shown, presses, moved>>

-----------------------------------------------------------------------------
(* The form: onSave and updateSettings.                                      *)

\* What the user has to fill in, he fills in.
Save ==
    /\ Press /\ store # None /\ chainPc["form"] = "idle"
    /\ Await("form", "save", url, form)
    /\ UNCHANGED <<server, page, url, shown, moved>>

\* The form always sends the amount and the frequency, which are refused while
\* there is an active cycle, whatever else is changed.
TakeSave ==
    LET g == chainLoc["form"].group IN
    /\ chainPc["form"] = "save"
    /\ IF g \in locked THEN EndChain("form") /\ UNCHANGED settings
       ELSE /\ settings' = [settings EXCEPT ![g] = chainLoc["form"].value]
            /\ Await("form", IF store = g THEN "again" ELSE "list", g, None)
    /\ UNCHANGED <<account, link, locked, page, url, shown, presses, moved>>

TakeAgain ==
    /\ chainPc["form"] = "again"
    /\ store' = chainLoc["form"].group
    /\ IF store = None THEN ShowForm("form", "list")
       ELSE Await("form", "list", url, None) /\ UNCHANGED <<panel, stage>>
    /\ UNCHANGED <<server, page, url, form, payment, dialog, presses, moved>>

\* The last answer, or an error.
EndForm ==
    /\ chainPc["form"] # "idle"
    /\ EndChain("form")
    /\ UNCHANGED <<server, page, url, shown, presses, moved>>

-----------------------------------------------------------------------------
(* The dialog.  Bound: it is not closed while its request is under way.      *)

OpenDialog ==
    /\ Press /\ store # None /\ dialog = Closed
    /\ dialog' = payment
    /\ UNCHANGED <<server, page, url, store, form, payment, panel, stage, chains, moved>>

CloseDialog ==
    /\ dialog # Closed /\ chainPc["dialog"] = "idle"
    /\ dialog' = Closed
    /\ UNCHANGED <<server, page, url, store, form, payment, panel, stage, chains, presses, moved>>

\* An account as it is in the dialog, or a new one.
Submit ==
    /\ Press /\ dialog # Closed /\ chainPc["dialog"] = "idle"
    /\ Await("dialog", "pay", url, IF dialog = None THEN url ELSE dialog)
    /\ UNCHANGED <<server, page, url, shown, moved>>

TakePay ==
    /\ chainPc["dialog"] = "pay"
    /\ account' = [account EXCEPT ![chainLoc["dialog"].group] = chainLoc["dialog"].value]
    /\ dialog' = Closed
    /\ Await("dialog", "reload", url, None)
    /\ UNCHANGED <<settings, link, locked, page, url, store, form, payment, panel, stage, presses, moved>>

TakeReload ==
    LET a == account[chainLoc["dialog"].group] IN
    /\ chainPc["dialog"] = "reload"
    /\ payment' = a /\ dialog' = Initial(a)
    /\ EndChain("dialog")
    /\ UNCHANGED <<server, page, url, store, form, panel, stage, presses, moved>>

LoseDialog ==
    /\ chainPc["dialog"] # "idle"
    /\ EndChain("dialog")
    /\ UNCHANGED <<server, page, url, shown, presses, moved>>

-----------------------------------------------------------------------------
(* The panel.                                                                *)

\* Bound: it is not used while the page still holds the group before.
Ask(step) ==
    /\ Press /\ store # None /\ chainPc["panel"] = "idle" /\ chainPc["page"] # "mine"
    /\ Await("panel", step, url, None)
    /\ UNCHANGED <<server, page, url, shown, moved>>

Linked == panel # None /\ panel.link = "linked"

RefreshGroups == ~ Linked /\ Ask("info")
SendCode == ~ Linked /\ stage = "pick" /\ Ask("send")
Verify == ~ Linked /\ stage = "verify" /\ Ask("verify")
Unlink == Linked /\ Ask("unlink")

ChooseAnother ==
    /\ Press /\ store # None /\ ~ Linked /\ stage = "verify" /\ chainPc["panel"] = "idle"
    /\ chainPc["page"] # "mine"
    /\ stage' = "pick"
    /\ UNCHANGED <<server, page, url, store, form, payment, dialog, panel, chains, moved>>

\* The server links a group a code has been sent for; the code is right.
TakeAsked ==
    LET g == chainLoc["panel"].group step == chainPc["panel"] IN
    /\ step \in {"send", "verify", "unlink"}
    /\ step = "verify" => link[g] = "pending"
    /\ link' = [link EXCEPT ![g] = CASE step = "send" -> "pending"
                                     [] step = "verify" -> "linked"
                                     [] OTHER -> "none"]
    /\ stage' = (IF step = "send" THEN "verify" ELSE IF step = "verify" THEN "pick" ELSE stage)
    /\ Await("panel", "status", url, IF step = "send" THEN None ELSE url)
    /\ UNCHANGED <<settings, account, locked, page, url, store, form, payment, dialog, panel, presses, moved>>

\* loadInfo.
Inform(g) ==
    /\ panel' = [group |-> g, link |-> link[g]]
    /\ stage' = IF link[g] = "pending" THEN "verify" ELSE stage

TakeInfo ==
    /\ chainPc["panel"] = "info"
    /\ Inform(chainLoc["panel"].group)
    /\ Await("panel", "chats", url, None)
    /\ UNCHANGED <<server, page, url, store, form, payment, dialog, presses, moved>>

\* After a link, or its end, the page fetches the group again and is hidden
\* until it has it.
TakeStatus ==
    /\ chainPc["panel"] = "status"
    /\ Inform(chainLoc["panel"].group)
    /\ IF chainLoc["panel"].value = None THEN EndChain("panel") /\ UNCHANGED store
       ELSE store' = None /\ Await("panel", "refetch", url, None)
    /\ UNCHANGED <<server, page, url, form, payment, dialog, presses, moved>>

TakeRefetch ==
    /\ chainPc["panel"] = "refetch"
    /\ store' = chainLoc["panel"].group
    /\ ShowForm("panel", "info")
    /\ UNCHANGED <<server, page, url, form, payment, dialog, presses, moved>>

\* The last answer, a refusal or an error.
EndPanel ==
    /\ chainPc["panel"] # "idle"
    /\ EndChain("panel")
    /\ UNCHANGED <<server, page, url, shown, presses, moved>>

-----------------------------------------------------------------------------
SettingsNext ==
    \/ Mount \/ AnsweredMine \/ AnsweredGroup \/ TakePayments \/ LosePage
    \/ \E g \in Groups : Pick(g)
    \/ Save \/ TakeSave \/ TakeAgain \/ EndForm
    \/ OpenDialog \/ CloseDialog \/ Submit \/ TakePay \/ TakeReload \/ LoseDialog
    \/ RefreshGroups \/ SendCode \/ Verify \/ Unlink \/ ChooseAnother
    \/ TakeAsked \/ TakeInfo \/ TakeStatus \/ TakeRefetch \/ EndPanel

SettingsSpec == SettingsInit /\ [][SettingsNext]_settingsVars

-----------------------------------------------------------------------------
(* Properties                                                                *)

\* As long as no other group is picked, a group is never given the settings or
\* the account of another, though the store still holds the group of the page
\* before and panel and form fetch it again (onMounted, onSave, onSubmit).
GroupsKeepTheirOwn ==
    ~ moved => \A g \in Groups : settings[g] \in {g, None} /\ account[g] \in {g, None}

\* What the page is for: it writes what it shows of the group in the URL.  The
\* picker of the page changes the URL and nothing else.
WritesWhatItShows == \A g \in Groups : settings[g] \in {g, None} /\ account[g] \in {g, None}

=============================================================================
