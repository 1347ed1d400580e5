---------------------------- MODULE WindowSharing ----------------------------
(***************************************************************************)
(* Window sharing (NSWindow.h lines 730-770, 894-900).                     *)
(*                                                                         *)
(* -requestSharingOfWindow:completionHandler: asks to share a window into  *)
(* the ScreenCaptureKit session: with a session available an alert asks   *)
(* the user to confirm; the handler gets a nil error only if the window    *)
(* was shared, NSUserCancelledError if there is no session or the user     *)
(* rejects, another error if sharing fails otherwise.  The ...UsingPreview *)
(* variant asks the delegate for the window only after the user confirms  *)
(* (windowForSharingRequestFromWindow:, which may return nil).             *)
(* -transferWindowSharingToWindow:completionHandler: asks the user to move *)
(* the SharePlay activity from the receiver to another window, or to stop *)
(* sharing; hasActiveWindowSharingSession tells whether a window is the   *)
(* subject of the SharePlay session.                                       *)
(*                                                                         *)
(* Each call is a request with an id from Ids; its completion handler is  *)
(* called asynchronously.  Sessions start and end outside the program.    *)
(***************************************************************************)
EXTENDS Naturals, FiniteSets

CONSTANTS
  Windows,    \* the application's windows
  Ids         \* identities of the calls made (bounds the number of calls)

Errors  == {"nil", "NSUserCancelledError", "OtherError"}
Kinds   == {"Share", "Preview", "Transfer"}
Stages  == {"Unused", "Requested", "Alert", "Delegate", "Completed"}

VARIABLES
  sckSession,  \* a ScreenCaptureKit sharing session is available
  captured,    \* windows shared into the ScreenCaptureKit session
  sharePlay,   \* windows w with w.hasActiveWindowSharingSession
  req,         \* req[i]: kind, receiver, window argument and stage of call i
  calls,       \* calls[i]: times call i's completion handler has run
  error        \* error[i]: the error passed to it the last time

vars == <<sckSession, captured, sharePlay, req, calls, error>>

NoRequest == [kind |-> "Share", from |-> CHOOSE w \in Windows : TRUE,
              window |-> CHOOSE w \in Windows : TRUE, stage |-> "Unused"]

Init ==
  /\ sckSession \in BOOLEAN
  /\ captured   = {}
  /\ sharePlay  \in {{}} \cup {{w} : w \in Windows}
  /\ req        = [i \in Ids |-> NoRequest]
  /\ calls      = [i \in Ids |-> 0]
  /\ error      = [i \in Ids |-> "nil"]

\* The completion handler of call i runs with error e.
Complete(i, e) ==
  /\ req'   = [req EXCEPT ![i].stage = "Completed"]
  /\ calls' = [calls EXCEPT ![i] = @ + 1]
  /\ error' = [error EXCEPT ![i] = e]

\* The handler of call i runs with a nil error: window w was shared.
Shared(i, w) ==
  /\ req'   = [req EXCEPT ![i].stage = "Completed", ![i].window = w]
  /\ calls' = [calls EXCEPT ![i] = @ + 1]
  /\ error' = [error EXCEPT ![i] = "nil"]

(***************************************************************************)
(* Plausible defects, used only to confirm that the properties detect them. *)
(***************************************************************************)

\* The user's confirmation is applied without asking whether the session
\* still exists.
userConfirms_stale(i) ==
  /\ req[i].stage = "Alert" /\ req[i].kind = "Share"
  /\ captured' = captured \cup {req[i].window}
  /\ Complete(i, "nil")
  /\ UNCHANGED <<sckSession, sharePlay>>

\* A nil window from the delegate ends the request without calling the
\* completion handler (an early return that forgets it).
delegateProvides_nilDropped(i, v) ==
  /\ req[i].stage = "Delegate"
  /\ IF v = {}
       THEN /\ req' = [req EXCEPT ![i].stage = "Completed"]
            /\ UNCHANGED <<captured, calls, error>>
       ELSE IF sckSession
              THEN captured' = captured \cup v /\ Shared(i, CHOOSE w \in v : TRUE)
              ELSE Complete(i, "NSUserCancelledError") /\ UNCHANGED captured
  /\ UNCHANGED <<sckSession, sharePlay>>

\* A failure that arrives after the request has finished still calls the
\* handler.
fail_late(i) ==
  /\ req[i].stage # "Unused"
  /\ Complete(i, "OtherError")
  /\ UNCHANGED <<sckSession, captured, sharePlay>>

\* The transfer is decided on what was true when it was requested.
userTransfers_stale(i, stop) ==
  /\ req[i].stage = "Alert" /\ req[i].kind = "Transfer"
  /\ sharePlay' = IF stop THEN sharePlay \ {req[i].from}
                  ELSE (sharePlay \ {req[i].from}) \cup {req[i].window}
  /\ Complete(i, "nil")
  /\ UNCHANGED <<sckSession, captured>>

(***************************************************************************)
(* Operations.                                                             *)
(***************************************************************************)

\* -requestSharingOfWindow: (kind Share), -requestSharingOfWindowUsingPreview:
\* (kind Preview, no window yet) and -transferWindowSharingToWindow: (kind
\* Transfer), sent to window w with window argument v; call i is made.
\* Which window receives a share request is data no step reads, so Next
\* makes it the window argument.
request(i, k, w, v) ==
  /\ req[i].stage = "Unused"
  /\ req' = [req EXCEPT ![i] = [kind |-> k, from |-> w, window |-> v,
                                stage |-> "Requested"]]
  /\ UNCHANGED <<sckSession, captured, sharePlay, calls, error>>

\* The request is taken up: without a ScreenCaptureKit session a share
\* request ends with NSUserCancelledError; otherwise the user is shown the
\* alert (for a transfer, the choice to transfer or stop sharing).
present(i) ==
  /\ req[i].stage = "Requested"
  /\ IF req[i].kind # "Transfer" /\ ~sckSession
       THEN Complete(i, "NSUserCancelledError")
       ELSE req' = [req EXCEPT ![i].stage = "Alert"] /\ UNCHANGED <<calls, error>>
  /\ UNCHANGED <<sckSession, captured, sharePlay>>

\* The user confirms the share: the window is shared if the session is
\* still there (without one the error is NSUserCancelledError, line 755);
\* a preview request first asks the delegate for the window.
userConfirms(i) ==
  /\ req[i].stage = "Alert" /\ req[i].kind \in {"Share", "Preview"}
  /\ CASE ~sckSession -> Complete(i, "NSUserCancelledError") /\ UNCHANGED captured
       [] req[i].kind = "Share" ->
            captured' = captured \cup {req[i].window} /\ Complete(i, "nil")
       [] OTHER -> /\ req' = [req EXCEPT ![i].stage = "Delegate"]
                  /\ UNCHANGED <<captured, calls, error>>
  /\ UNCHANGED <<sckSession, sharePlay>>

\* The user rejects the offer to share.
userRejects(i) ==
  /\ req[i].stage = "Alert" /\ req[i].kind \in {"Share", "Preview"}
  /\ Complete(i, "NSUserCancelledError")
  /\ UNCHANGED <<sckSession, captured, sharePlay>>

\* windowForSharingRequestFromWindow: returns v (a window, or nil as {});
\* the window it returns becomes the request's window.  A nil window is a
\* failure "for some other reason"; a session gone meanwhile is "no
\* ScreenCaptureKit session" (line 755).
delegateProvides(i, v) ==
  /\ req[i].stage = "Delegate"
  /\ CASE v = {} -> Complete(i, "OtherError") /\ UNCHANGED captured
       [] sckSession -> /\ captured' = captured \cup v
                       /\ Shared(i, CHOOSE w \in v : TRUE)
       [] OTHER -> Complete(i, "NSUserCancelledError") /\ UNCHANGED captured
  /\ UNCHANGED <<sckSession, sharePlay>>

\* The user transfers the activity to the new window, or stops sharing.
\* A receiver that no longer represents the activity fails the transfer.
userTransfers(i, stop) ==
  /\ req[i].stage = "Alert" /\ req[i].kind = "Transfer"
  /\ IF req[i].from \in sharePlay
       THEN /\ sharePlay' = IF stop THEN {} ELSE {req[i].window}
            /\ Complete(i, "nil")
       ELSE Complete(i, "OtherError") /\ UNCHANGED sharePlay
  /\ UNCHANGED <<sckSession, captured>>

\* Sharing fails for some other reason before the request finished.
fail(i) ==
  /\ req[i].stage \in {"Requested", "Alert", "Delegate"}
  /\ Complete(i, "OtherError")
  /\ UNCHANGED <<sckSession, captured, sharePlay>>

\* Sessions start and end outside the application; when the capture
\* session ends nothing is shared into it any more.
sckStart == ~sckSession /\ sckSession' = TRUE /\ UNCHANGED <<captured, sharePlay, req, calls, error>>
sckEnd   == sckSession /\ sckSession' = FALSE /\ captured' = {}
              /\ UNCHANGED <<sharePlay, req, calls, error>>
sharePlayStart(w) == sharePlay = {} /\ sharePlay' = {w}
                       /\ UNCHANGED <<sckSession, captured, req, calls, error>>
sharePlayEnd == sharePlay # {} /\ sharePlay' = {}
                  /\ UNCHANGED <<sckSession, captured, req, calls, error>>

Nil == {}
DelegateResults == {Nil} \cup {{w} : w \in Windows}

Next ==
  \/ \E i \in Ids, w \in Windows :
       \/ \E k \in {"Share", "Preview"} : request(i, k, w, w)
       \/ \E v \in Windows : request(i, "Transfer", w, v)
  \/ \E i \in Ids : \/ present(i) \/ userConfirms(i) \/ userRejects(i) \/ fail(i)
                   \/ \E v \in DelegateResults : delegateProvides(i, v)
                   \/ \E stop \in BOOLEAN : userTransfers(i, stop)
  \/ sckStart \/ sckEnd \/ sharePlayEnd
  \/ \E w \in Windows : sharePlayStart(w)

\* AppKit takes up every request and the delegate method returns; the user
\* answering the alert is an assumption about the user, not the code.
Fairness ==
  \A i \in Ids :
    /\ WF_vars(present(i))
    /\ WF_vars(userConfirms(i) \/ userRejects(i) \/ \E stop \in BOOLEAN : userTransfers(i, stop))
    /\ WF_vars(\E v \in DelegateResults : delegateProvides(i, v))

Spec     == Init /\ [][Next]_vars
FairSpec == Spec /\ Fairness

(***************************************************************************)
(* Properties.                                                             *)
(***************************************************************************)

\* Every completion handler runs at most once, whatever fails and when.
TypeOK ==
  /\ sckSession \in BOOLEAN
  /\ captured   \subseteq Windows
  /\ sharePlay  \subseteq Windows
  /\ \A i \in Ids : req[i].kind \in Kinds /\ req[i].from \in Windows
                    /\ req[i].window \in Windows /\ req[i].stage \in Stages
  /\ calls \in [Ids -> 0..1]
  /\ error \in [Ids -> Errors]

\* "The error will be non-nil if the request does not result in a window
\* being shared" (line 755): a share or preview request is answered with
\* nil exactly when the step shares a window into a live capture session,
\* and a step that answers it with an error shares nothing.  For a
\* transfer, "a failed transfer request" has a non-nil error (line 738): a
\* nil answer means the receiver, still the SharePlay subject when the user
\* answered, handed the activity to the new window or stopped it, and an
\* error leaves the subject as it was.  Both must hold when the session or
\* the activity changed while the alert was up.
NilErrorIffShared ==
  [][\A i \in Ids :
       calls'[i] > calls[i] =>
         IF req[i].kind = "Transfer"
           THEN IF error'[i] = "nil"
                  THEN req[i].from \in sharePlay /\ sharePlay' \in {{}, {req[i].window}}
                  ELSE sharePlay' = sharePlay
           ELSE IF error'[i] = "nil"
                  THEN sckSession' /\ req'[i].window \in captured'
                  ELSE captured' = captured]_vars

\* Nothing stays shared into a capture session that has ended, even when
\* the user answers an alert shown before it ended.
CapturedOnlyInSession == captured # {} => sckSession

\* Every call made eventually has its completion handler called.
EveryCallAnswered ==
  \A i \in Ids : req[i].stage # "Unused" ~> calls[i] > 0
=============================================================================
