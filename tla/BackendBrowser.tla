--------------------------- MODULE BackendBrowser ---------------------------
(***************************************************************************)
(* The browser side of the backend OIDC mode: the callback fragment in the *)
(* page's URL, the store it is captured to, the bootstrap that hands it to *)
(* the client, popup logins, and the client's resolution of the metadata   *)
(* that a callback announces.                                              *)
(*                                                                         *)
(* A fragment stands for the tokens it carries and for its redemption id,  *)
(* which the server honours once.                                          *)
(***************************************************************************)
EXTENDS Naturals

CONSTANTS
    Fragments,       \* callback fragments, in the order they arrive
    WellFormed,      \* those with an access token and an id token
    Redeemable,      \* those with a metadata redemption id
    PageBoots,       \* bootstraps that may overlap
    PopupLogins,     \* popup logins that may overlap
    CallsOverlap,    \* whether the host starts a popup login during another call
    NoFragment

ASSUME BrowserAssumption ==
    /\ WellFormed \subseteq Fragments /\ Redeemable \subseteq Fragments
    /\ NoFragment \notin Fragments /\ CallsOverlap \in BOOLEAN
    /\ PageBoots \cap PopupLogins = {}

VARIABLES
    hash,           \* the fragment in the page's URL
    fragmentStore,  \* callbackFragmentStore, in the session storage
    boots,          \* bootstraps and popup logins that have not returned
    session,        \* the persisted snapshot: the fragment it came from
    redeemed,       \* the redemption ids that the server has honoured
    arrived,        \* history: the fragments the server has sent
    dealtWith       \* history: those applied, rejected, replaced or reset

browserVars == <<hash, fragmentStore, boots, session, redeemed, arrived, dealtWith>>

BootCalls == PageBoots \cup PopupLogins
NoBoot == [pc |-> "none", fragment |-> NoFragment]

BrowserInit ==
    /\ hash = NoFragment /\ fragmentStore = NoFragment /\ session = NoFragment
    /\ boots = [b \in BootCalls |-> NoBoot]
    /\ redeemed = {} /\ arrived = {} /\ dealtWith = {}

Boot(b, pc) == boots[b].pc = pc
BootGoes(b, pc) == boots' = [boots EXCEPT ![b].pc = pc]
NoCallRuns == \A b \in BootCalls : Boot(b, "none")
MayStart(b) ==
    /\ Boot(b, "none")
    /\ \/ CallsOverlap \/ NoCallRuns
       \/ b \in PageBoots /\ \A p \in PopupLogins : Boot(p, "none")

-----------------------------------------------------------------------------
(* A redirect login: the page is left for authorizeUrl and comes back with *)
(* a fragment.  What was running on the page is gone.                      *)
loginWithBackendOidcRedirect(f) ==
    /\ f \notin arrived
    /\ arrived' = arrived \cup {f}
    /\ hash' = f
    /\ dealtWith' = dealtWith \cup ({hash} \ {NoFragment})
    /\ boots' = [b \in BootCalls |-> NoBoot]
    /\ UNCHANGED <<fragmentStore, session, redeemed>>

BrowserReload ==
    /\ boots' = [b \in BootCalls |-> NoBoot]
    /\ UNCHANGED <<hash, fragmentStore, session, redeemed, arrived, dealtWith>>

(* Saving replaces a fragment that was kept for another attempt.           *)
SaveFragment(f) ==
    /\ fragmentStore' = f
    /\ dealtWith' = dealtWith \cup ({fragmentStore} \ {f, NoFragment})

captureBackendOidcModeCallbackFragment(b) ==
    /\ MayStart(b)
    /\ IF hash = NoFragment
       THEN BootGoes(b, "loading") /\ UNCHANGED <<fragmentStore, dealtWith>>
       ELSE SaveFragment(hash) /\ BootGoes(b, "captured")
    /\ UNCHANGED <<hash, session, redeemed, arrived>>

(* After the save: history.replaceState.                                   *)
ReplaceState(b) ==
    /\ Boot(b, "captured")
    /\ hash' = NoFragment
    /\ BootGoes(b, "loading")
    /\ UNCHANGED <<fragmentStore, session, redeemed, arrived, dealtWith>>

bootstrapBackendOidcModeFromCallbackStore_Consumes(b) ==
    /\ Boot(b, "loading")
    /\ boots' = [boots EXCEPT ![b] = [fragment |-> fragmentStore,
         pc |-> IF fragmentStore = NoFragment THEN "restoring" ELSE "handling"]]
    /\ fragmentStore' = NoFragment
    /\ UNCHANGED <<hash, session, redeemed, arrived, dealtWith>>

bootstrapBackendOidcModeFromCallbackStore(b) ==
    /\ Boot(b, "loading")
    /\ boots' = [boots EXCEPT ![b] = [fragment |-> fragmentStore,
         pc |-> IF fragmentStore = NoFragment THEN "restoring" ELSE "handling"]]
    /\ UNCHANGED <<hash, fragmentStore, session, redeemed, arrived, dealtWith>>

(* restorePersistedState answers with the snapshot, or with nothing.       *)
restoreBackendOidcModeClient(b) ==
    /\ Boot(b, "restoring")
    /\ boots' = [boots EXCEPT ![b] = NoBoot]
    /\ UNCHANGED <<hash, fragmentStore, session, redeemed, arrived, dealtWith>>

-----------------------------------------------------------------------------
(* A popup login; what the popup relays is modelled in FrontendLogin.      *)
loginWithBackendOidcPopup(b) ==
    /\ MayStart(b)
    /\ BootGoes(b, "waiting")
    /\ UNCHANGED <<hash, fragmentStore, session, redeemed, arrived, dealtWith>>

PopupRelays(b, f) ==
    /\ Boot(b, "waiting")
    /\ f \notin arrived
    /\ arrived' = arrived \cup {f}
    /\ SaveFragment(f)
    /\ BootGoes(b, "loading")
    /\ UNCHANGED <<hash, session, redeemed>>

PopupFails(b) ==
    /\ Boot(b, "waiting")
    /\ boots' = [boots EXCEPT ![b] = NoBoot]
    /\ UNCHANGED <<hash, fragmentStore, session, redeemed, arrived, dealtWith>>

-----------------------------------------------------------------------------
(* The client's handleCallback: the fragment's tokens, and the metadata by *)
(* redemption or from the user info.                                       *)

parseBackendOidcModeCallbackFragment(f) == f \in WellFormed

HandleFragment(b) ==
    LET f == boots[b].fragment IN
    /\ Boot(b, "handling")
    /\ BootGoes(b, CASE ~parseBackendOidcModeCallbackFragment(f) -> "rejected"
                     [] parseBackendOidcModeCallbackFragment(f) /\ f \in Redeemable -> "redeeming"
                     [] OTHER -> "userinfo")
    /\ UNCHANGED <<hash, fragmentStore, session, redeemed, arrived, dealtWith>>

(* 200 with the metadata, or 404 when the id was redeemed before.          *)
_redeemMetadata(b) ==
    LET f == boots[b].fragment IN
    /\ Boot(b, "redeeming")
    /\ redeemed' = redeemed \cup {f}
    /\ BootGoes(b, IF f \in redeemed THEN "userinfo" ELSE "applying")
    /\ UNCHANGED <<hash, fragmentStore, session, arrived, dealtWith>>

(* The redemption fails, before or after the server has honoured the id.   *)
RedemptionFails(b, honoured, retryable) ==
    /\ Boot(b, "redeeming")
    /\ redeemed' = IF honoured THEN redeemed \cup {boots[b].fragment} ELSE redeemed
    /\ IF retryable THEN boots' = [boots EXCEPT ![b] = NoBoot] ELSE BootGoes(b, "rejected")
    /\ UNCHANGED <<hash, fragmentStore, session, arrived, dealtWith>>

(* User info, or none: a failure leaves the snapshot without a principal.  *)
_resolveMetadata(b) ==
    /\ Boot(b, "userinfo")
    /\ BootGoes(b, "applying")
    /\ UNCHANGED <<hash, fragmentStore, session, redeemed, arrived, dealtWith>>

(* The client was disposed: Cancelled, and the fragment is retained.       *)
HandlingCancelled(b) ==
    /\ boots[b].pc \in {"handling", "redeeming", "applying"}
    /\ boots' = [boots EXCEPT ![b] = NoBoot]
    /\ UNCHANGED <<hash, fragmentStore, session, redeemed, arrived, dealtWith>>

FragmentApplied(b) ==
    /\ Boot(b, "applying")
    /\ session' = boots[b].fragment
    /\ dealtWith' = dealtWith \cup {boots[b].fragment}
    /\ BootGoes(b, "clearing")
    /\ UNCHANGED <<hash, fragmentStore, redeemed, arrived>>

(* An error that another attempt would meet again.                         *)
FragmentRejected(b) ==
    /\ Boot(b, "rejected")
    /\ dealtWith' = dealtWith \cup {boots[b].fragment}
    /\ BootGoes(b, "clearing")
    /\ UNCHANGED <<hash, fragmentStore, session, redeemed, arrived>>

ClearFragment(b) ==
    /\ Boot(b, "clearing")
    /\ fragmentStore' = NoFragment
    /\ boots' = [boots EXCEPT ![b] = NoBoot]
    /\ UNCHANGED <<hash, session, redeemed, arrived, dealtWith>>

resetBackendOidcModeBrowserState ==
    /\ CallsOverlap \/ NoCallRuns
    /\ dealtWith' = dealtWith \cup ({fragmentStore} \ {NoFragment})
    /\ fragmentStore' = NoFragment /\ session' = NoFragment
    /\ UNCHANGED <<hash, boots, redeemed, arrived>>

BootStep(b) ==
    \/ ReplaceState(b) \/ bootstrapBackendOidcModeFromCallbackStore(b)
    \/ restoreBackendOidcModeClient(b) \/ PopupFails(b)
    \/ HandleFragment(b) \/ _redeemMetadata(b) \/ _resolveMetadata(b)
    \/ \E honoured, retryable \in BOOLEAN : RedemptionFails(b, honoured, retryable)
    \/ HandlingCancelled(b) \/ FragmentApplied(b) \/ FragmentRejected(b) \/ ClearFragment(b)

BrowserNext ==
    \/ \E b \in PageBoots : captureBackendOidcModeCallbackFragment(b)
    \/ \E b \in PopupLogins :
         \/ loginWithBackendOidcPopup(b)
         \/ \E f \in Fragments : PopupRelays(b, f)
    \/ \E b \in BootCalls : BootStep(b)
    \/ \E f \in Fragments : loginWithBackendOidcRedirect(f)
    \/ BrowserReload
    \/ resetBackendOidcModeBrowserState

BrowserSpec == BrowserInit /\ [][BrowserNext]_browserVars

-----------------------------------------------------------------------------
(* Properties                                                              *)

(* A callback that has reached the page is not lost: until it is applied,  *)
(* definitely rejected, replaced by a later one or reset, it is in the URL *)
(* or in the store, whenever the page is reloaded, the client disposed or  *)
(* a request fails; and the session is always that of such a callback.     *)
CapturedCallbackSurvives ==
    /\ arrived \subseteq dealtWith \cup {hash, fragmentStore}
    /\ session \in {NoFragment} \cup (WellFormed \cap dealtWith)
=============================================================================
