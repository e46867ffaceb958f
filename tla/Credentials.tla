----------------------------- MODULE Credentials -----------------------------
(***************************************************************************)
(* The controller's device credential: kept on the card by the client      *)
(* (src/goclient/ssh_credential.go) and copied to the live file of the     *)
(* tmpfs /etc by ssh-accounts.sh, which the client runs when the stored    *)
(* one changes and init.sh runs at every boot.  The client is one loop;    *)
(* it may be killed, the script may fail and the power may go at any step. *)
(***************************************************************************)
EXTENDS Naturals

CONSTANTS
    Creds,          \* user:hash lines that pass validSSHCredential
    None, Empty,    \* no file; a file of no content
    MaxUpdates,     \* bound: UpdateUsernamePassword messages
    MaxDeaths,      \* bound: clients killed, scripts and writes that fail
    MaxOutages      \* bound: power cuts

VARIABLES
    protect,        \* PROTECT_SSH
    card,           \* etc/ssh_protect and etc/ssh_protect.tmp on the card
    liveCred,       \* /etc/ssh_protect
    client,         \* the handler's program counter and its line
    script,         \* ssh-accounts.sh: "off", or the file operation it is before
    doubt,          \* the card has changed and the script has not run to its end
    handled,        \* the line of the last message, once it is dealt with
    credLeft        \* what remains of the bounds

vars == <<protect, card, liveCred, client, script, doubt, handled, credLeft>>

Waiting == [pc |-> "wait", line |-> None]

Init ==
    /\ protect \in BOOLEAN
    /\ card = [file |-> None, tmp |-> None]
    /\ liveCred = None
    /\ client = Waiting
    /\ script = "clear"
    /\ doubt = TRUE
    /\ handled = None
    /\ credLeft = [updates |-> MaxUpdates, deaths |-> MaxDeaths, outages |-> MaxOutages]

At(pc) == client.pc = pc

----------------------------------------------------------------------------
(* handleUpdateUsernamePassword, storeSSHCredential. *)

\* With PROTECT_SSH off, or the line that is stored already, nothing happens.
Update(c) ==
    /\ At("wait") /\ script = "off" /\ credLeft.updates > 0
    /\ credLeft' = [credLeft EXCEPT !.updates = @ - 1]
    /\ IF protect /\ card.file # c
       THEN client' = [pc |-> "open", line |-> c] /\ UNCHANGED handled
       ELSE handled' = c /\ UNCHANGED client
    /\ UNCHANGED <<protect, card, liveCred, script, doubt>>

\* Wrong on purpose: the file itself is written, not one beside it.
MutOpenTmp ==
    /\ At("open")
    /\ card' = [card EXCEPT !.file = Empty, !.tmp = client.line]
    /\ client' = [client EXCEPT !.pc = "rename"]
    /\ UNCHANGED <<protect, liveCred, script, doubt, handled, credLeft>>

OpenTmp ==
    /\ At("open")
    /\ card' = [card EXCEPT !.tmp = Empty]
    /\ client' = [client EXCEPT !.pc = "fill"]
    /\ UNCHANGED <<protect, liveCred, script, doubt, handled, credLeft>>

FillTmp ==
    /\ At("fill")
    /\ card' = [card EXCEPT !.tmp = client.line]
    /\ client' = [client EXCEPT !.pc = "rename"]
    /\ UNCHANGED <<protect, liveCred, script, doubt, handled, credLeft>>

Rename ==
    /\ At("rename")
    /\ card' = [file |-> card.tmp, tmp |-> None]
    /\ client' = [client EXCEPT !.pc = "run"]
    /\ doubt' = TRUE
    /\ UNCHANGED <<protect, liveCred, script, handled, credLeft>>

\* exec of the script; the handler waits for its end.
RunScript ==
    /\ At("run") /\ script = "off"
    /\ script' = "clear"
    /\ client' = [client EXCEPT !.pc = "ran"]
    /\ UNCHANGED <<protect, card, liveCred, doubt, handled, credLeft>>

Return ==
    /\ At("ran") /\ script = "off"
    /\ handled' = client.line
    /\ client' = Waiting
    /\ UNCHANGED <<protect, card, liveCred, script, doubt, credLeft>>

\* A file operation or the exec fails, which is logged; or the client is killed,
\* and the next one starts.
Abandon ==
    /\ ~At("wait") /\ credLeft.deaths > 0
    /\ credLeft' = [credLeft EXCEPT !.deaths = @ - 1]
    /\ client' = Waiting
    /\ UNCHANGED <<protect, card, liveCred, script, doubt, handled>>

----------------------------------------------------------------------------
(* ssh-accounts.sh, and the boot that runs it. *)

Clear ==
    /\ script = "clear"
    /\ liveCred' = Empty
    /\ script' = "copy"
    /\ UNCHANGED <<protect, card, client, doubt, handled, credLeft>>

\* Wrong on purpose: a credential on the card is honoured whatever PROTECT_SSH says.
MutInstalls == card.file # None
Installs == protect /\ card.file # None

Copy ==
    /\ script = "copy"
    /\ liveCred' = IF Installs THEN card.file ELSE liveCred
    /\ script' = "off"
    /\ doubt' = FALSE
    /\ UNCHANGED <<protect, card, client, handled, credLeft>>

\* The script dies half way.
ScriptDies ==
    /\ script # "off" /\ credLeft.deaths > 0
    /\ credLeft' = [credLeft EXCEPT !.deaths = @ - 1]
    /\ script' = "off"
    /\ doubt' = TRUE
    /\ UNCHANGED <<protect, card, liveCred, client, handled>>

\* The power goes: /etc is made anew and the script runs before the client.
\* PROTECT_SSH may have been edited meanwhile.
Outage ==
    /\ credLeft.outages > 0
    /\ credLeft' = [credLeft EXCEPT !.outages = @ - 1]
    /\ protect' \in BOOLEAN
    /\ liveCred' = None
    /\ client' = Waiting
    /\ script' = "clear"
    /\ doubt' = TRUE
    /\ handled' = None
    /\ UNCHANGED card

Next ==
    \/ \E c \in Creds : Update(c)
    \/ OpenTmp \/ FillTmp \/ Rename \/ RunScript \/ Return \/ Abandon
    \/ Clear \/ Copy \/ ScriptDies \/ Outage

----------------------------------------------------------------------------
(* Properties. *)

\* The files hold nothing, or a line as a whole.
TypeOK ==
    /\ protect \in BOOLEAN /\ doubt \in BOOLEAN
    /\ card \in [file : Creds \cup {None, Empty}, tmp : Creds \cup {None, Empty}]
    /\ liveCred \in Creds \cup {None, Empty}
    /\ client.pc \in {"wait", "open", "fill", "rename", "run", "ran"}
    /\ script \in {"off", "clear", "copy"}

\* Whatever dies at whatever step, the card holds a credential as a whole or
\* none, and once the script has run to its end the one that is honoured is the
\* one on the card, and none with PROTECT_SSH off.
CredentialWhole ==
    /\ card.file # Empty
    /\ script = "off" /\ ~doubt =>
           liveCred = IF protect /\ card.file # None THEN card.file ELSE Empty

\* ssh_credential.go:6: the credential is "sent on every connect", so one that
\* was dealt with is the one that is honoured.
ResendInstalls ==
    At("wait") /\ script = "off" /\ protect /\ handled # None => liveCred = handled
=============================================================================
