----------------------------- MODULE ImagePulls -----------------------------
(***************************************************************************)
(* The pulls of template images that administrators ask for (Server's      *)
(* imagePulls): one goroutine pulls, and in the end looks up the entry of  *)
(* its template and writes there what became of it.  The pull runs outside *)
(* the mutex and is bounded by nothing; the look at the image store after  *)
(* it runs inside, bounded by the timeout of the adapter's client.  What   *)
(* Podman has of images is a free choice: others pull and remove too.      *)
(***************************************************************************)
EXTENDS FiniteSets

CONSTANTS
    Template, Image,
    Page,                  \* requests for the status of an image or for a pull
    Puller,                \* goroutines, each used over and over
    None

PullAssumption == None \notin Puller

VARIABLES
    image,                 \* the image of each template's row
    pulls,                 \* imagePulls
    puller,                \* what each goroutine is at
    page,                  \* what each request is at
    pullMutex              \* the goroutine that holds imagePullMu

vars == <<image, pulls, puller, page, pullMutex>>

NoPull == [image |-> None, status |-> "none"]
Idle == [at |-> "idle", template |-> None, image |-> None]

Pull == [image : Image, status : {"pulling", "available", "failed"}]
Pulling(g) == puller[g].at # "idle"

TypeOK ==
    /\ image \in [Template -> Image]
    /\ pulls \in [Template -> Pull \cup {NoPull}]
    /\ puller \in [Puller -> [at : {"pull", "pulled", "refused", "check"},
                              template : Template, image : Image] \cup {Idle}]
    /\ page \in [Page -> [at : {"status", "pull"}, template : Template, image : Image] \cup {Idle}]
    /\ pullMutex \in Puller \cup {None}
    /\ \A g \in Puller : pullMutex = g <=> puller[g].at = "check"

Init ==
    /\ image \in [Template -> Image]
    /\ pulls = [t \in Template |-> NoPull]
    /\ puller = [g \in Puller |-> Idle]
    /\ page = [p \in Page |-> Idle]
    /\ pullMutex = None

-----------------------------------------------------------------------------
(* Both pages read the template before they look at the pulls. *)
GetTemplate(p, at, t) ==
    /\ page[p] = Idle
    /\ page' = [page EXCEPT ![p] = [at |-> at, template |-> t, image |-> image[t]]]
    /\ UNCHANGED <<image, pulls, puller, pullMutex>>

(* What it finds, it shows only for the image it has read. *)
ImagePullSnapshot(p) ==
    /\ page[p].at = "status" /\ pullMutex = None
    /\ page' = [page EXCEPT ![p] = Idle]
    /\ UNCHANGED <<image, pulls, puller, pullMutex>>

(* A slip: the template's image has changed, so that it is another pull. *)
UnderWayForImage(t, i) == pulls[t].status = "pulling" /\ pulls[t].image = i

(* The pull of another image of the template counts, too. *)
UnderWay(t, i) == pulls[t].status = "pulling"

StartImagePull(p) ==
    LET t == page[p].template  i == page[p].image IN
    /\ page[p].at = "pull" /\ pullMutex = None
    /\ IF UnderWay(t, i) THEN UNCHANGED <<pulls, puller>>
       ELSE \E g \in Puller :
               /\ puller[g] = Idle
               /\ puller' = [puller EXCEPT ![g] = [at |-> "pull", template |-> t, image |-> i]]
               /\ pulls' = [pulls EXCEPT ![t] = [image |-> i, status |-> "pulling"]]
    /\ page' = [page EXCEPT ![p] = Idle]
    /\ UNCHANGED <<image, pullMutex>>

(* PullImage returns, if ever it does. *)
PullImage(g, outcome) ==
    /\ puller[g].at = "pull"
    /\ puller' = [puller EXCEPT ![g].at = outcome]
    /\ UNCHANGED <<image, pulls, page, pullMutex>>

Settle(g, status) ==
    /\ pulls' = [pulls EXCEPT ![puller[g].template].status = status]
    /\ puller' = [puller EXCEPT ![g] = Idle]

PullFailed(g) ==
    /\ puller[g].at = "refused" /\ pullMutex = None
    /\ Settle(g, "failed")
    /\ UNCHANGED <<image, page, pullMutex>>

BeginCheck(g) ==
    /\ puller[g].at = "pulled" /\ pullMutex = None
    /\ pullMutex' = g
    /\ puller' = [puller EXCEPT ![g].at = "check"]
    /\ UNCHANGED <<image, pulls, page>>

(* ImageAvailable answers, with the image or without. *)
Check(g) ==
    /\ puller[g].at = "check"
    /\ Settle(g, "available") \/ Settle(g, "failed")
    /\ pullMutex' = None
    /\ UNCHANGED <<image, page>>

(* UpdateTemplate *)
EditTemplate(t, i) ==
    /\ image[t] # i
    /\ image' = [image EXCEPT ![t] = i]
    /\ UNCHANGED <<pulls, puller, page, pullMutex>>

(* The process begins anew: nothing of this is stored. *)
Restart ==
    /\ pulls' = [t \in Template |-> NoPull]
    /\ puller' = [g \in Puller |-> Idle]
    /\ page' = [p \in Page |-> Idle]
    /\ pullMutex' = None
    /\ UNCHANGED image

Goroutine(g) ==
    \/ PullFailed(g) \/ BeginCheck(g) \/ Check(g)
    \/ \E outcome \in {"pulled", "refused"} : PullImage(g, outcome)

Next ==
    \/ \E p \in Page : \/ ImagePullSnapshot(p) \/ StartImagePull(p)
                       \/ \E at \in {"status", "pull"}, t \in Template : GetTemplate(p, at, t)
    \/ \E g \in Puller : Goroutine(g)
    \/ \E t \in Template, i \in Image : EditTemplate(t, i)
    \/ Restart

Spec == Init /\ [][Next]_vars

-----------------------------------------------------------------------------
(* "Only one pull operation per template is started at a time", and the    *)
(* entry it finds in the end is its own, although it asks for the template *)
(* and not for the image (runImagePull).                                   *)
PullsMatch ==
    /\ \A g, h \in Puller :
          Pulling(g) /\ Pulling(h) /\ puller[g].template = puller[h].template => g = h
    /\ \A t \in Template : pulls[t].status = "pulling" <=>
          \E g \in Puller : /\ Pulling(g) /\ puller[g].template = t
                            /\ puller[g].image = pulls[t].image

=============================================================================
