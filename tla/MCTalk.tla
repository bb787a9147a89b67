------------------------------- MODULE MCTalk -------------------------------
EXTENDS Talk

CONSTANTS a, b

Says(user, channel, mention, link) ==
    [user |-> user, channel |-> channel, mention |-> mention, link |-> link]

MCSayings ==
    {Says(a, "goal", FALSE, TRUE), Says(a, "inbox", FALSE, FALSE),
     Says(b, "goal", TRUE, FALSE), Says(b, "goal", FALSE, FALSE)}

MCSayingsOfOwner == {s \in MCSayings : s.user = a}

(* A behaviour has exercises, or digests, or deliveries that are repeated, *)
(* or a channel that is shared, or links, which do not depend on each      *)
(* other; with the first two, users only reply, to a digest once. A        *)
(* message that waits might as well be written later, unless its thread is *)
(* busy; a turn between its reading a row and its using it is there when   *)
(* others move on, and no other turn; one that stops while its agent talks *)
(* leaves what one leaves that stops after.                                *)
Quiet ==
    /\ \A t \in turns : t.at \in {"answer", "talk"}
    /\ \A e \in events : ~ThreadFree(e)

Reduced ==
    /\ Cardinality({n \in 1..5 : <<runs' > 0, digests' > 0, again' > 0, members' # {a}, asked' # {}>>[n]}) <= 1
    /\ runs' + digests' > 0 => \A ts \in DOMAIN posts' : posts'[ts].user \in Users => posts'[ts].root # ts
    /\ digests' > 0 => said' <= 1
    /\ exerciseVars' # exerciseVars \/ inboxVars' # inboxVars \/ said' > said => Quiet
    /\ draft.at # "idle" /\ draft'.at = "idle" => draft.at \notin {"draft", "post"}
    /\ ready' # ready => turns = {} /\ runs = 0 /\ digests = 0
    /\ today' > today => draft.at = "idle" /\ digest.at = "idle" /\ turns = {} /\ runs > 0
    /\ again' > again => events = {}
    /\ Cardinality({t \in turns' : t.at # "talk"}) <= 1
    /\ \A t \in turns : t.at = "talk" => \E o \in turns' : o.ts = t.ts
=============================================================================
