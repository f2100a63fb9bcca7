------------------------------- MODULE SignIn -------------------------------
(***************************************************************************)
(* Signing in (app/auth): the login screen that hands the tab to           *)
(* authentik, the callback screen that exchanges the code, asks GET /me    *)
(* and goes on to the app, and RequireAuth in front of it.  authentik, the *)
(* network and GET /me answer as they like; an attempt given up with       *)
(* "Start over" keeps running, its results ignored.                        *)
(*                                                                         *)
(* A read or a removal of the stored session is one step with what asked   *)
(* for it.  The window of the quiet retry is longer than a run.            *)
(***************************************************************************)
EXTENDS Integers, FiniteSets

CONSTANTS MeRetries,     \* the pauses before GET /me is given up
          MaxAttempts,   \* bound on the attempts of one callback page
          MaxRounds,     \* bound on the round trips to authentik
          MaxFlips,      \* bound on the changes of the network
          Home, Paths,   \* the start page; the pages of this app a sign-in may be asked for from
          Elsewhere,     \* an address of another origin
          NoError

SignAssumption == NoError \notin
  {"cancelled", "state_mismatch", "not_allowed", "token_failed", "idp_error", "timeout",
   "api_unavailable", "offline", "misconfigured"}

VARIABLES
  place,       \* "login", "callback", "app", or "authentik"
  errand,      \* what authentik was asked for: "signin", "select" an account, or "signout"
  stored,      \* the session in localStorage
  silentRetry, selectAccount, kept,    \* this tab's sessionStorage: kept is the page to come back to
  carried,     \* the page in the OIDC state of the round trip
  returnTo,    \* the page this screen would go on to
  address,     \* the page of the app the tab has come to
  oldLink,     \* the callback was opened by an old link
  hinted,      \* "Use another account" knows whose session it is
  started,     \* the login screen's effect has run
  tries,       \* the running attempts: [n, at, retry]
  attempt,     \* the one whose results count
  error, stage,
  signedIn,    \* the user the exchange gave, kept for "Retry"
  starting,    \* startSignIn calls not over: "signin", "select"; switchAccount: "signout"
  online, oldCode, rounds, flips,
  stranded,    \* history: leaving failed for want of a network
  wanted       \* history: the page the sign-in in this tab was asked for from

page == <<started, tries, attempt, error, stage, signedIn, starting, oldCode, returnTo, oldLink, hinted>>
tab == <<place, errand, stored, silentRetry, selectAccount, kept, carried, address, wanted>>
signVars == <<tab, page, online, rounds, flips, stranded>>

\* An error screen: its one button, if any, and whether it has details to forward.
ErrorScreen(action, details) == [action |-> action, details |-> details]
CouldNotSignIn == ErrorScreen("try again", TRUE)
ErrorScreens ==
  [cancelled |-> ErrorScreen("try again", FALSE),
   state_mismatch |-> ErrorScreen("sign in again", TRUE),
   not_allowed |-> ErrorScreen("use another account", TRUE),
   token_failed |-> CouldNotSignIn, idp_error |-> CouldNotSignIn, timeout |-> CouldNotSignIn,
   api_unavailable |-> ErrorScreen("retry", TRUE),
   offline |-> ErrorScreen("none", FALSE),
   misconfigured |-> ErrorScreen("none", TRUE)]
Codes == DOMAIN ErrorScreens
HasAction(code) == code # NoError /\ ErrorScreens[code].action # "none"

\* Only a page of this app is gone back to.
ReturnPathOf(path) == IF path \in Paths THEN path ELSE Home

\* What can come of the exchange, as callbackError reads it; an old link has no sign-in to match.
HasAuthParams == ~oldLink
CallbackErrors ==
  IF ~HasAuthParams THEN {"state_mismatch"}
  ELSE {"cancelled", "token_failed", "misconfigured", "idp_error", "state_mismatch", "timeout", "expired_code"}
         \cup (IF online THEN {} ELSE {"offline"})

\* What can come of GET /me, as meError reads it.
MeErrors == {"not_allowed", "token_failed", "api_unavailable"} \cup (IF online THEN {} ELSE {"offline"})

CodeOf(failure) == IF failure = "expired_code" THEN "token_failed" ELSE failure
SilentlyRetried(failure) == failure \in {"expired_code", "state_mismatch"}
TakesSilentRetry(failure) == SilentlyRetried(failure) /\ ~silentRetry

Current(t) == t.n = attempt
Show(e) == error' = e /\ stage' = "blank"
PendingReturnTo == ReturnPathOf(kept)

StartSignIn(how) == starting' = starting \cup {how} /\ kept' = ReturnPathOf(returnTo)
SwitchAccount == starting' = starting \cup {"signout"} /\ selectAccount' = TRUE

Fresh(where) ==       \* a page just loaded
  /\ place' = where /\ started' = (where = "callback") /\ Show(NoError)
  /\ tries' = IF where = "callback" THEN {[n |-> 1, at |-> "begin", retry |-> 0]} ELSE {}
  /\ attempt' = 1 /\ signedIn' = FALSE /\ starting' = {} /\ oldCode' = FALSE /\ stranded' = FALSE
  /\ hinted' = FALSE
Goes(t, at) == tries' = (tries \ {t}) \cup {[t EXCEPT !.at = at]}

StorageInit ==
  /\ stored \in BOOLEAN /\ silentRetry = FALSE /\ selectAccount = FALSE
  /\ kept = Home /\ carried = Home /\ address = Home
LoginInit == \E path \in Paths \cup {Elsewhere} : returnTo = ReturnPathOf(path)
ScreenInit ==
  /\ started = FALSE /\ tries = {} /\ attempt = 1 /\ error = NoError /\ stage = "blank" /\ signedIn = FALSE
  /\ starting = {} /\ oldCode = FALSE /\ oldLink = FALSE /\ hinted = FALSE
SignInit ==
  /\ place = "login" /\ errand = "signin" /\ StorageInit /\ LoginInit /\ ScreenInit
  /\ online = TRUE /\ rounds = 0 /\ flips = 0 /\ stranded = FALSE /\ wanted = returnTo

-----------------------------------------------------------------------------
(* Leaving for authentik, and coming back.                                 *)

Leave(what) ==
  /\ what \in starting /\ online /\ rounds < MaxRounds
  /\ rounds' = rounds + 1 /\ errand' = what
  /\ place' = "authentik" /\ stored' = (stored /\ what # "signout")
  /\ carried' = IF what = "signout" THEN carried ELSE kept
  /\ tries' = {} /\ starting' = {} /\ Show(NoError)
  /\ UNCHANGED <<silentRetry, selectAccount, kept, returnTo, address, oldLink, hinted, wanted,
                 started, attempt, signedIn, online, oldCode, flips, stranded>>

\* Unreachable or not configured; the error replaces whatever is shown.
LeaveFails(what) ==
  /\ what \in starting /\ starting' = starting \ {what}
  /\ \E code \in IF online THEN {"misconfigured", "token_failed"} ELSE {"offline"} : Show(code)
  /\ stranded' = (stranded \/ ~online)
  /\ UNCHANGED <<tab, started, tries, attempt, signedIn, online, oldCode, returnTo, oldLink, hinted,
                 rounds, flips>>

\* A sign-out comes back to /login, with no page to return to.
Return ==
  /\ place = "authentik" /\ oldLink' = FALSE
  /\ IF errand = "signout" THEN Fresh("login") /\ returnTo' = Home /\ wanted' = Home
     ELSE Fresh("callback") /\ returnTo' = PendingReturnTo /\ UNCHANGED wanted
  /\ UNCHANGED <<errand, stored, silentRetry, selectAccount, kept, carried, address, online, rounds, flips>>

\* An old callback address is opened: Back, a second tab's link.
OldCallback ==
  /\ place = "app" /\ rounds < MaxRounds /\ rounds' = rounds + 1
  /\ Fresh("callback") /\ oldLink' = TRUE /\ returnTo' = PendingReturnTo /\ wanted' = kept
  /\ UNCHANGED <<errand, stored, silentRetry, selectAccount, kept, carried, address, online, flips>>

TakeSelectAccount == selectAccount' = FALSE     \* asking clears it

\* The login screen: asked for another account, or on to the app, or to authentik.
Login ==
  /\ place = "login" /\ ~started
  /\ TakeSelectAccount
  /\ IF stored /\ ~selectAccount
     THEN place' = "app" /\ address' = returnTo /\ UNCHANGED <<started, starting, kept>>
     ELSE /\ StartSignIn(IF selectAccount THEN "select" ELSE "signin") /\ started' = TRUE
          /\ UNCHANGED <<place, address>>
  /\ UNCHANGED <<errand, stored, silentRetry, carried, returnTo, oldLink, hinted, wanted, tries, attempt,
                 error, stage, signedIn, online, oldCode, rounds, flips, stranded>>

LoginAgain ==
  /\ place = "login" /\ HasAction(error)
  /\ StartSignIn("signin") /\ Show(NoError)
  /\ UNCHANGED <<place, errand, stored, silentRetry, selectAccount, carried, address, wanted, returnTo,
                 oldLink, hinted, started, tries, attempt, signedIn, online, oldCode, rounds, flips, stranded>>

\* RequireAuth: a session that ends shows the login screen, with the page to come back to.
LoginPath(path) == returnTo' = ReturnPathOf(path) /\ wanted' = path
SessionEnds(path) ==
  /\ place = "app" /\ stored' = FALSE
  /\ Fresh("login") /\ LoginPath(path) /\ oldLink' = FALSE
  /\ UNCHANGED <<errand, silentRetry, selectAccount, kept, carried, address, online, rounds, flips>>

-----------------------------------------------------------------------------
(* The callback screen.                                                    *)

Restarted == attempt' = attempt + 1 /\ StartSignIn("signin")
Kept == <<place, errand, selectAccount, carried, address, oldLink, wanted, started, online, oldCode,
          rounds, flips, stranded>>
Asked == <<kept, returnTo, hinted>>

\* complete: offline, it waits for the network before it spends the code.
Begin(t) ==
  /\ t \in tries /\ t.at = "begin"
  /\ IF online THEN Goes(t, "exchange") /\ UNCHANGED <<error, stage>>
     ELSE Goes(t, "waits to begin") /\ Show("offline")
  /\ UNCHANGED <<Kept, Asked, stored, silentRetry, attempt, signedIn, starting>>

\* The network is back: with a code too old a new sign-in, else the same code once more.
BackOnline(t) ==
  /\ t \in tries /\ online /\ t.at \in {"waits to begin", "waits to exchange"}
  /\ IF oldCode
     THEN /\ tries' = tries \ {t} /\ Restarted
          /\ IF t.at = "waits to exchange" THEN Show(NoError) ELSE UNCHANGED <<error, stage>>
     ELSE /\ Show(NoError) /\ UNCHANGED <<starting, kept>>
          /\ IF t.at = "waits to begin" THEN Goes(t, "exchange") /\ UNCHANGED attempt
             ELSE /\ attempt < MaxAttempts /\ attempt' = attempt + 1
                  /\ tries' = (tries \ {t}) \cup {[t EXCEPT !.n = attempt + 1, !.at = "begin"]}
  /\ UNCHANGED <<Kept, returnTo, hinted, stored, silentRetry, signedIn>>

Exchanged(t) ==
  /\ t \in tries /\ t.at = "exchange" /\ online /\ HasAuthParams
  /\ stored' = TRUE
  /\ IF Current(t) THEN Goes(t, "me") /\ signedIn' = TRUE /\ returnTo' = ReturnPathOf(carried)
     ELSE tries' = tries \ {t} /\ UNCHANGED <<signedIn, returnTo>>
  /\ UNCHANGED <<Kept, kept, hinted, silentRetry, attempt, error, stage, starting>>

\* The exchange that was too late still signs in.
ExchangedLate(t) ==
  /\ t \in tries /\ t.at = "late" /\ online
  /\ stored' = TRUE /\ tries' = tries \ {t}
  /\ UNCHANGED <<Kept, Asked, silentRetry, attempt, error, stage, signedIn, starting>>

GoesOnToTheApp(path) ==
  /\ place' = "app" /\ address' = path /\ tries' = {} /\ starting' = {}
  /\ UNCHANGED <<errand, stored, silentRetry, selectAccount, kept, carried, returnTo, oldLink, hinted, wanted,
                 started, attempt, error, stage, signedIn, online, oldCode, rounds, flips, stranded>>

SessionIsAlive(failure) == failure = "state_mismatch" /\ stored

\* An old callback while the session is alive goes on; one quiet new sign-in; waiting for the
\* network; or the error is shown.
ExchangeFails(t, failure) ==
  /\ t \in tries /\ t.at = "exchange" /\ failure \in CallbackErrors
  /\ \/ /\ ~Current(t) /\ tries' = tries \ {t}
        /\ UNCHANGED <<Kept, Asked, stored, silentRetry, attempt, error, stage, signedIn, starting>>
     \/ Current(t) /\ SessionIsAlive(failure) /\ GoesOnToTheApp(returnTo)
     \/ /\ Current(t) /\ ~SessionIsAlive(failure) /\ TakesSilentRetry(failure)
        /\ silentRetry' = TRUE /\ tries' = tries \ {t} /\ Restarted
        /\ UNCHANGED <<Kept, returnTo, hinted, stored, error, stage, signedIn>>
     \/ /\ Current(t) /\ ~SessionIsAlive(failure) /\ ~TakesSilentRetry(failure)
        /\ Show(CodeOf(failure))
        /\ CASE failure = "offline" -> Goes(t, "waits to exchange")
             [] failure = "timeout" -> Goes(t, "late")
             [] OTHER -> tries' = tries \ {t}
        /\ UNCHANGED <<Kept, Asked, stored, silentRetry, attempt, signedIn, starting>>

MeAnswers(t) ==
  /\ t \in tries /\ t.at = "me" /\ online
  /\ \/ Current(t) /\ GoesOnToTheApp(ReturnPathOf(carried))
     \/ /\ ~Current(t) /\ tries' = tries \ {t}
        /\ UNCHANGED <<Kept, Asked, stored, silentRetry, attempt, error, stage, signedIn, starting>>

MeFailsLeavingUser(t, failure) ==    \* mutant: the session of a refused account stays
  /\ t \in tries /\ t.at = "me" /\ failure \in MeErrors /\ tries' = tries \ {t} /\ Show(failure)
  /\ UNCHANGED <<Kept, Asked, stored, silentRetry, attempt, signedIn, starting>>

\* Offline it waits, unavailable it asks again after a pause, each counted as a retry; a user who
\* may not use the app is signed out of it.
MeFails(t, failure) ==
  LET pauses == failure = "api_unavailable" /\ t.retry < MeRetries
      refused == failure \in {"not_allowed", "token_failed"}
  IN  /\ t \in tries /\ t.at = "me" /\ failure \in MeErrors
      /\ \/ /\ ~Current(t) /\ tries' = tries \ {t}
            /\ UNCHANGED <<error, stage, stored, hinted>>
         \/ /\ Current(t) /\ failure = "offline" /\ Show("offline") /\ Goes(t, "waits for me")
            /\ UNCHANGED <<stored, hinted>>
         \/ /\ Current(t) /\ pauses /\ Goes(t, "pause")
            /\ UNCHANGED <<error, stage, stored, hinted>>
         \/ /\ Current(t) /\ failure # "offline" /\ ~pauses
            /\ tries' = tries \ {t} /\ Show(failure)
            /\ stored' = (stored /\ ~refused) /\ hinted' = (hinted \/ refused)
      /\ UNCHANGED <<Kept, kept, returnTo, silentRetry, attempt, signedIn, starting>>

AskMeAgain(t) ==
  /\ t \in tries
  /\ \/ t.at = "waits for me" /\ online /\ Show(NoError)
     \/ t.at = "pause" /\ UNCHANGED <<error, stage>>
  /\ tries' = (tries \ {t}) \cup (IF Current(t) \/ t.at = "waits for me"
                                  THEN {[t EXCEPT !.at = "me", !.retry = (@ + 1)]} ELSE {})
  /\ UNCHANGED <<Kept, Asked, stored, silentRetry, attempt, signedIn, starting>>

\* The wait's timeline, and "Start over" at its end.
Waits ==
  /\ place = "callback" /\ error = NoError /\ (\A t \in tries : t.at # "begin")
  /\ \E s \in {<<"blank", "spinner">>, <<"spinner", "hint">>, <<"hint", "slow">>} : stage = s[1] /\ stage' = s[2]
  /\ UNCHANGED <<Kept, Asked, stored, silentRetry, tries, attempt, error, signedIn, starting>>

StartOver ==
  /\ place = "callback" /\ error = NoError /\ stage = "slow" /\ attempt < MaxAttempts
  /\ Restarted
  /\ UNCHANGED <<Kept, returnTo, hinted, stored, silentRetry, tries, error, stage, signedIn>>

\* The error's button, or Enter.
Act ==
  /\ place = "callback" /\ HasAction(error) /\ attempt < MaxAttempts
  /\ CASE error = "not_allowed" ->
            /\ SwitchAccount /\ UNCHANGED <<kept, tries, attempt, error, stage>>
       [] error = "api_unavailable" ->
            /\ attempt' = attempt + 1 /\ Show(NoError)
            /\ tries' = tries \cup {[n |-> attempt + 1, at |-> "me", retry |-> 0]}
            /\ UNCHANGED <<selectAccount, starting, kept>>
       [] OTHER -> Restarted /\ UNCHANGED <<tries, selectAccount, error, stage>>
  /\ UNCHANGED <<place, errand, stored, silentRetry, carried, address, wanted, returnTo, oldLink, hinted,
                 started, signedIn, online, oldCode, rounds, flips, stranded>>

-----------------------------------------------------------------------------

NetworkFlips ==
  /\ flips < MaxFlips /\ flips' = flips + 1 /\ online' = ~online
  /\ UNCHANGED <<tab, page, rounds, stranded>>

CodeAges ==
  /\ place = "callback" /\ ~oldCode /\ oldCode' = TRUE
  /\ UNCHANGED <<tab, started, tries, attempt, error, stage, signedIn, starting, returnTo, oldLink, hinted,
                 online, rounds, flips, stranded>>

SignNext ==
  \/ Return \/ OldCallback \/ Login \/ LoginAgain \/ (\E path \in Paths : SessionEnds(path)) \/ Waits \/ StartOver \/ Act \/ NetworkFlips \/ CodeAges
  \/ \E what \in {"signin", "select", "signout"} : Leave(what) \/ LeaveFails(what)
  \/ \E t \in tries : \/ Begin(t) \/ BackOnline(t) \/ Exchanged(t) \/ ExchangedLate(t)
                      \/ MeAnswers(t) \/ AskMeAgain(t)
  \/ \E t \in tries, failure \in CallbackErrors : ExchangeFails(t, failure)
  \/ \E t \in tries, failure \in MeErrors : MeFails(t, failure)

SignSpec == SignInit /\ [][SignNext]_signVars

-----------------------------------------------------------------------------
(* What the person signing in may count on.                                *)

Waiting == {t \in tries : t.at \in {"waits to begin", "waits to exchange", "waits for me"}}

\* At most one attempt runs, the one given up included, and one that waits for the network counts:
\* nothing can have replaced it meanwhile.
OneAttemptCounts ==
  /\ Cardinality(tries) <= 1
  /\ \A t \in Waiting : Current(t)

\* A screen without an error has something going on, one that says sign-in will go on has an
\* attempt waiting for the network, unless the network was lost while leaving for authentik, and
\* every other error has a button or details to forward.
NothingWaitsForNothing ==
  place \in {"login", "callback"} =>
    /\ error = NoError => ~started \/ starting # {} \/ \E t \in tries : Current(t)
    /\ error = "offline" /\ ~stranded => Waiting # {} \/ starting # {}
    /\ error \notin {NoError, "offline"} => HasAction(error) \/ ErrorScreens[error].details

\* An account refused is not left signed in, "Retry" has a user to ask about, and the app is
\* reached with a session only.
OnlyTheAllowedEnter ==
  /\ place = "callback" /\ error = "not_allowed" => ~stored
  /\ place = "callback" /\ error = "api_unavailable" => signedIn
  /\ place = "app" => stored
  /\ "signout" \in starting => hinted /\ selectAccount

\* Whatever happens on the way, the tab comes to the page its sign-in was asked for from.
ComesBack ==
  /\ place = "app" => address = wanted
  /\ place = "callback" => returnTo = wanted /\ ((\E t \in tries : Current(t) /\ t.at = "me") => carried = wanted)

\* Signing in: CallbackScreen.tsx, LoginScreen.tsx.
SignInAgrees == OneAttemptCounts /\ NothingWaitsForNothing /\ OnlyTheAllowedEnter /\ ComesBack
=============================================================================
