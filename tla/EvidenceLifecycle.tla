------------------------- MODULE EvidenceLifecycle -------------------------
(***************************************************************************)
(* sites-app/src/domain.mjs: the life of a public contribution.  Its owner *)
(* adds, edits and withdraws it, anybody may flag it, a reviewer gives it  *)
(* an evidence level and a second decision, approve-export, releases it    *)
(* for redistribution.                                                     *)
(*                                                                         *)
(* Every operation is one transaction of the store (AtomicStore), but the  *)
(* people at the desks decide on a card they loaded earlier                *)
(* (sites-app/public/app.js: loadReview, then a click), and between the    *)
(* two everybody else goes on.  The only thing that ties the click to the  *)
(* card is the version it carries.                                         *)
(*                                                                         *)
(* An input that a validation refuses changes nothing and is left out; the *)
(* check boxes that only have to be ticked are ticked.                     *)
(***************************************************************************)
EXTENDS Integers, Sequences

CONSTANTS Item,        \* contributions
          User,        \* anonymous sessions that own and flag
          Desk,        \* browser sessions with the review and export tokens
          Flag,        \* identifiers for correction flags
          Form,        \* the structured inputs of the contribution form
          Level,       \* evidence levels that reviewers use
          MaxVersion,  \* bound: versions of one contribution
          MaxReviews   \* bound: reviews of one contribution

Rights     == {"own_summary", "reference_only"}
SourceType == {"other", "official_decision"}
Decision   == {"approve", "reject", "dispute", "reopen"}
Status     == {"ABSENT", "PENDING", "REVIEWED", "VERIFIED", "REJECTED", "DISPUTED", "WITHDRAWN"}
FlagStatus == {"ABSENT", "OPEN", "SUPERSEDED", "REVIEWED"}

ASSUME LifecycleAssumption ==
  /\ Level \subseteq 0..5 /\ 0 \in Level
  /\ MaxVersion \in Nat /\ MaxReviews \in Nat
  /\ Form # {} /\ User # {} /\ Item # {}
  /\ Form \subseteq [public : BOOLEAN, shareConsent : BOOLEAN, rights : Rights,
                     scoped : BOOLEAN,   \* scope, periodStart and periodEnd given
                     sources : Seq(SourceType)]   \* S1, S2, ...

VARIABLES
  item,      \* state.contributions
  flag,      \* state.flags
  review,    \* state.reviews, the latest record of each contribution
  export,    \* state.exportReviews, the latest record of each contribution
  card,      \* the row of reviewQueue() a desk has on its screen
  unseen     \* history: flags closed by a review whose card did not show them

vars == <<item, flag, review, export, card, unseen>>

SomeForm == CHOOSE c \in Form : TRUE
SomeUser == CHOOSE u \in User : TRUE
SomeItem == CHOOSE i \in Item : TRUE

Contribution == [owner : User, version : 0..MaxVersion, status : Status,
                 evidence : Level, content : Form, exportApproved : BOOLEAN]
\* n: position in the log.  seen: the text on the deciding desk's screen.
Review == [n : 0..MaxReviews, version : 0..MaxVersion, decision : Decision,
           evidence : Level, sourceIds : SUBSET (Nat \ {0}), seen : Form]
\* afterReview: the latest review when the release was recorded.
Export == [version : 0..MaxVersion, afterReview : 0..MaxReviews, seen : Form]
\* raisedAfter: the latest review of the contribution when it was flagged.
FlagRecord == [item : Item, owner : User, status : FlagStatus, raisedAfter : 0..MaxReviews]
Card == [shown : BOOLEAN, item : Item, version : 0..MaxVersion, content : Form,
         flags : SUBSET Flag]

NoCard == [shown |-> FALSE, item |-> SomeItem, version |-> 0, content |-> SomeForm,
           flags |-> {}]

TypeOK ==
  /\ item \in [Item -> Contribution]
  /\ flag \in [Flag -> FlagRecord]
  /\ review \in [Item -> Review]
  /\ export \in [Item -> Export]
  /\ card \in [Desk -> Card]
  /\ unseen \subseteq Flag

Init ==
  /\ item = [i \in Item |-> [owner |-> SomeUser, version |-> 0, status |-> "ABSENT",
                            evidence |-> 0, content |-> SomeForm, exportApproved |-> FALSE]]
  /\ flag = [f \in Flag |-> [item |-> SomeItem, owner |-> SomeUser,
                            status |-> "ABSENT", raisedAfter |-> 0]]
  /\ review = [i \in Item |-> [n |-> 0, version |-> 0, decision |-> "reopen", evidence |-> 0,
                              sourceIds |-> {}, seen |-> SomeForm]]
  /\ export = [i \in Item |-> [version |-> 0, afterReview |-> 0, seen |-> SomeForm]]
  /\ card = [d \in Desk |-> NoCard]
  /\ unseen = {}

Live(i)      == item[i].status \notin {"ABSENT", "WITHDRAWN"}
OpenFlags(i) == {f \in Flag : flag[f].item = i /\ flag[f].status = "OPEN"}

\* The contribution with another status, evidence and release, same text.
Marked(i, status, evidence, exportApproved) ==
  [owner |-> item[i].owner, version |-> item[i].version, content |-> item[i].content,
   status |-> status, evidence |-> evidence, exportApproved |-> exportApproved]

\* Mutant of Closed: a closed flag gets the status of its contribution.
ClosedAsItem(i, s) ==
  [f \in Flag |-> IF f \in OpenFlags(i) THEN [flag[f] EXCEPT !.status = item[i].status]
                                        ELSE flag[f]]

\* state.flags after every OPEN flag of i has been closed with status s.
Closed(i, s) ==
  [f \in Flag |-> IF f \in OpenFlags(i) THEN [flag[f] EXCEPT !.status = s] ELSE flag[f]]

-----------------------------------------------------------------------------
(* The owner *)

\* validateContributionInput(): material for reference cannot be released.
Valid(c) == ~(c.shareConsent /\ c.rights = "reference_only")

\* addContribution()
Add(i, u, c) ==
  /\ item[i].status = "ABSENT"
  /\ MaxVersion >= 1
  /\ Valid(c)
  /\ item' = [item EXCEPT ![i] = [owner |-> u, version |-> 1, status |-> "PENDING",
                                  evidence |-> 0, content |-> c, exportApproved |-> FALSE]]
  /\ UNCHANGED <<flag, review, export, card, unseen>>

\* Mutant of Edited: an edit keeps status, evidence and release.
EditedKeepsVerdict(i, c) ==
  [owner |-> item[i].owner, version |-> item[i].version + 1, content |-> c,
   status |-> item[i].status, evidence |-> item[i].evidence,
   exportApproved |-> item[i].exportApproved]

\* The contribution after an edit is an unverified lead again.
Edited(i, c) ==
  [owner |-> item[i].owner, version |-> item[i].version + 1, content |-> c,
   status |-> "PENDING", evidence |-> 0, exportApproved |-> FALSE]

\* updateContribution(): the owner only.
Update(i, u, c) ==
  /\ Live(i)
  /\ item[i].owner = u
  /\ item[i].version < MaxVersion
  /\ Valid(c)
  /\ item' = [item EXCEPT ![i] = Edited(i, c)]
  /\ flag' = Closed(i, "SUPERSEDED")
  /\ UNCHANGED <<review, export, card, unseen>>

\* withdrawContribution(): the owner only; flags are left as they are.
Withdraw(i, u) ==
  /\ item[i].status # "ABSENT"
  /\ item[i].owner = u
  /\ item' = [item EXCEPT ![i] = Marked(i, "WITHDRAWN", item[i].evidence, FALSE)]
  /\ UNCHANGED <<flag, review, export, card, unseen>>

-----------------------------------------------------------------------------
(* Everybody *)

\* flagContribution(): an open flag of the same session is returned as it is,
\* without any change; otherwise a flag is added and the release suspended.
Raise(f, i, u) ==
  /\ flag[f].status = "ABSENT"
  /\ Live(i)
  /\ \A g \in OpenFlags(i) : flag[g].owner # u
  /\ flag' = [flag EXCEPT ![f] = [item |-> i, owner |-> u, status |-> "OPEN",
                                  raisedAfter |-> review[i].n]]
  /\ item' = [item EXCEPT ![i] = Marked(i, item[i].status, item[i].evidence, FALSE)]
  /\ UNCHANGED <<review, export, card, unseen>>

-----------------------------------------------------------------------------
(* The desks *)

\* loadReview(): a row of reviewQueue() comes on the screen.
Load(d, i) ==
  /\ Live(i)
  /\ item[i].content.public
  /\ card' = [card EXCEPT ![d] = [shown |-> TRUE, item |-> i, version |-> item[i].version,
                                  content |-> item[i].content, flags |-> OpenFlags(i)]]
  /\ UNCHANGED <<item, flag, review, export, unseen>>

\* What approving content c at level e demands.
Supported(c, e, sourceIds) ==
  /\ e >= 2 => c.sources # << >>
  /\ e >= 3 => c.scoped /\ sourceIds # {} /\ sourceIds \subseteq DOMAIN c.sources
  /\ e = 5 => \E s \in sourceIds : c.sources[s] = "official_decision"

\* Mutants of Decidable: without the comparison of versions; without the
\* search for a contribution that is not withdrawn.
DecidableAnyVersion(d) ==
  card[d].shown /\ Live(card[d].item)
DecidableWithdrawn(d) ==
  card[d].shown /\ card[d].version = item[card[d].item].version

\* The common checks of reviewContribution() and approveExport(): the
\* contribution is live and still at the version on the card.
Decidable(d) ==
  /\ card[d].shown
  /\ Live(card[d].item)
  /\ card[d].version = item[card[d].item].version

\* The status and the evidence a decision gives contribution i.
Verdict(i, decision, e) ==
  CASE decision = "approve" -> [status |-> IF e >= 3 THEN "VERIFIED" ELSE "REVIEWED", evidence |-> e]
    [] decision = "reject"  -> [status |-> "REJECTED", evidence |-> 0]
    [] decision = "reopen"  -> [status |-> "PENDING", evidence |-> 0]
    [] decision = "dispute" -> [status |-> "DISPUTED", evidence |-> item[i].evidence]

\* reviewContribution(), then the page reloads the queue.
Decide(d, decision, e, sourceIds) ==
  LET i == card[d].item
      v == Verdict(i, decision, e)
  IN  /\ Decidable(d)
      /\ review[i].n < MaxReviews
      /\ decision = "approve" => Supported(item[i].content, e, sourceIds)
      /\ review' = [review EXCEPT ![i] =
                     [n |-> @.n + 1, version |-> item[i].version, decision |-> decision,
                      evidence |-> v.evidence, sourceIds |-> sourceIds,
                      seen |-> card[d].content]]
      /\ item' = [item EXCEPT ![i] = Marked(i, v.status, v.evidence, FALSE)]
      /\ flag' = Closed(i, "REVIEWED")
      /\ unseen' = unseen \union (OpenFlags(i) \ card[d].flags)
      /\ card' = [card EXCEPT ![d] = NoCard]
      /\ UNCHANGED export

\* Mutant of Releasable: without the search for an open flag.
ReleasableFlagged(i) ==
  /\ item[i].status \in {"REVIEWED", "VERIFIED"}
  /\ item[i].content.public /\ item[i].content.shareConsent
  /\ item[i].content.rights # "reference_only"

\* The further checks of approveExport().
Releasable(i) ==
  /\ item[i].status \in {"REVIEWED", "VERIFIED"}
  /\ item[i].content.public /\ item[i].content.shareConsent
  /\ item[i].content.rights # "reference_only"
  /\ OpenFlags(i) = {}

\* approveExport(), then the page reloads the queue.
Release(d) ==
  LET i == card[d].item
  IN  /\ Decidable(d)
      /\ Releasable(i)
      /\ item' = [item EXCEPT ![i] = Marked(i, item[i].status, item[i].evidence, TRUE)]
      /\ export' = [export EXCEPT ![i] = [version |-> item[i].version,
                                          afterReview |-> review[i].n,
                                          seen |-> card[d].content]]
      /\ card' = [card EXCEPT ![d] = NoCard]
      /\ UNCHANGED <<flag, review, unseen>>

-----------------------------------------------------------------------------

\* The page sends the ids of all the sources, a client of the API any of them.
Next ==
  \/ \E i \in Item, u \in User :
       \/ Withdraw(i, u)
       \/ \E c \in Form : Add(i, u, c) \/ Update(i, u, c)
       \/ \E f \in Flag : Raise(f, i, u)
  \/ \E d \in Desk, i \in Item : Load(d, i)
  \/ \E d \in Desk :
       \/ Release(d)
       \/ \E decision \in Decision, e \in Level :
            \E sourceIds \in SUBSET DOMAIN card[d].content.sources :
              Decide(d, decision, e, sourceIds)

Spec == Init /\ [][Next]_vars

-----------------------------------------------------------------------------
(* What the public sees *)

\* publicDataset(): the rows of the redistributable data set.
PublicDataset ==
  {i \in Item : /\ item[i].content.public /\ item[i].exportApproved
                /\ item[i].status \in {"REVIEWED", "VERIFIED"}
                /\ OpenFlags(i) = {}}

\* publicLabourSignalSummary() and the evidence lane of showcase(): claims
\* shown as strong evidence.
StrongClaims ==
  {i \in Item : /\ item[i].content.public /\ item[i].status = "VERIFIED"
                /\ item[i].evidence >= 3 /\ OpenFlags(i) = {}}

-----------------------------------------------------------------------------
(* Properties *)

\* A reviewed or verified contribution carries the verdict of its latest
\* review: an approval, of this version, given by somebody who had this very
\* text on the screen, with the sources and scope its level demands.  Edits and
\* reviews that race (reviewContribution, updateContribution) do not change that.
VerdictIsAboutTheText ==
  \A i \in Item : item[i].status \in {"REVIEWED", "VERIFIED"} =>
    /\ review[i].decision = "approve"
    /\ review[i].version = item[i].version
    /\ review[i].seen = item[i].content
    /\ review[i].evidence = item[i].evidence
    /\ Supported(item[i].content, item[i].evidence, review[i].sourceIds)
    /\ item[i].status = "VERIFIED" <=> item[i].evidence >= 3

\* exportApproved never outlives what approveExport() was told: the latest
\* release was recorded after the latest review, for this text, which is public
\* and consented to, and no correction has come in since.
ReleaseIsCurrent ==
  \A i \in Item : item[i].exportApproved =>
    /\ item[i].content.public /\ item[i].content.shareConsent
    /\ export[i].version = item[i].version
    /\ export[i].seen = item[i].content
    /\ review[i].decision = "approve"
    /\ export[i].afterReview = review[i].n
    /\ OpenFlags(i) = {}

\* Only a review clears a correction away: a claim shown as strong evidence has
\* been reviewed, and a row of the data set reviewed and released, after every
\* flag that was ever raised against it, edits in between or not
\* (flagContribution, updateContribution, approveExport).
CorrectionsAreReviewed ==
  \A f \in Flag : flag[f].status # "ABSENT" =>
    /\ flag[f].item \in StrongClaims  => review[flag[f].item].n > flag[f].raisedAfter
    /\ flag[f].item \in PublicDataset => export[flag[f].item].afterReview > flag[f].raisedAfter

\* A withdrawal is final: no decision that was on its way when the owner
\* withdrew brings the contribution back (withdrawContribution).
WithdrawalIsFinal ==
  [][\A i \in Item : item[i].status = "WITHDRAWN" => item'[i] = item[i]]_vars

\* The rows of publicDataset() are a data set that snapshots can be made of: no
\* text changes under its version, no row changes while it is in, and nothing
\* comes in but by approveExport(), whatever desks and sessions do at once
\* (approveExport, flagContribution, reviewContribution, updateContribution).
Dataset == INSTANCE SourceDataset WITH
             Record <- Item, listed <- PublicDataset,
             version <- [i \in Item |-> item[i].version],
             text <- [i \in Item |-> item[i].content],
             verdict <- [i \in Item |-> [status |-> item[i].status, evidence |-> item[i].evidence,
                                          release |-> export[i]]]
ImplementsDataset == Dataset!DatasetSpec

\* "Corrections pause redistribution": a flag no reviewer has had on the screen
\* keeps its contribution out of the data set.  reviewContribution() closes the
\* flags that are open when it runs, seen or not, and the version does not
\* change when a flag is raised.
UnseenCorrectionPauses ==
  \A i \in PublicDataset, f \in unseen : flag[f].item # i
=============================================================================
