---------------------------- MODULE EvidenceQuery ----------------------------
(***************************************************************************)
(* Paged queries over a repository that other processes publish into       *)
(* (EvidenceRepository.query in src/flameox/repository.py).  A page lists   *)
(* the inventory again, one directory at a time and with no lock, and its   *)
(* cursor names the inventory, the filters and an offset into the          *)
(* inventory.  What is published stays published and is complete when it   *)
(* appears: that is what module Repository shows.                          *)
(***************************************************************************)
EXTENDS Naturals, FiniteSets

CONSTANTS
    Evidence,   \* evidence digests, as their places in the sorting order
    Prefix,     \* the directory of each: the first two digits of its digest
    Filters,    \* filters, each as the evidence that matches it
    Limits      \* page sizes

ASSUME QueryConstants ==
    /\ Evidence \subseteq Nat /\ IsFiniteSet(Evidence)
    /\ Prefix \in [Evidence -> Nat]
    /\ Filters \subseteq SUBSET Evidence
    /\ Limits \subseteq Nat \ {0}

VARIABLES
    prefixes,   \* the directories of evidence/sha256
    published,  \* the evidence bundles in them
    call,       \* the query being answered, see Calls
    unread,     \* directories it has still to list
    inventory,  \* what it listed so far
    answer,     \* the last page
    issued      \* the cursors clients hold, with what led to them

vars == <<prefixes, published, call, unread, inventory, answer, issued>>

(* The state of a paged query, as its cursor and what its pages returned so
   far; known is what was published when its first page was asked for. *)
Cursor == [inventory : SUBSET Evidence, filter : SUBSET Evidence, offset : Nat]
Chains == [cursor : Cursor, got : SUBSET Evidence, known : SUBSET Evidence]
Calls  == [first : BOOLEAN, filter : Filters, limit : Limits, chain : Chains]

NoChain == [cursor |-> [inventory |-> {}, filter |-> {}, offset |-> 0],
            got |-> {}, known |-> {}]
Idle == [first |-> FALSE, filter |-> {}, limit |-> 0, chain |-> NoChain]
NoAnswer == [of |-> Idle, page |-> {}, last |-> FALSE]

(***************************************************************************)
(* Publishers, as readers see them.                                        *)
(***************************************************************************)

MakePrefix(e) ==
    /\ Prefix[e] \notin prefixes
    /\ prefixes' = prefixes \cup {Prefix[e]}
    /\ UNCHANGED <<published, call, unread, inventory, answer, issued>>

Publish(e) ==
    /\ Prefix[e] \in prefixes
    /\ e \notin published
    /\ published' = published \cup {e}
    /\ UNCHANGED <<prefixes, call, unread, inventory, answer, issued>>

(***************************************************************************)
(* A query.                                                                *)
(***************************************************************************)

Started(c) ==
    /\ call = Idle
    /\ call' = c
    /\ unread' = prefixes
    /\ inventory' = {}
    /\ UNCHANGED <<prefixes, published, answer, issued>>

FirstPage(filter, limit) ==
    Started([first |-> TRUE, filter |-> filter, limit |-> limit,
             chain |-> [NoChain EXCEPT !.known = published]])

(* A client repeats a cursor with filters and a page size of its choice *)
NextPage(chain, filter, limit) ==
    Started([first |-> FALSE, filter |-> filter, limit |-> limit, chain |-> chain])

(* Mutation: takes bundles for published before their rename. *)
ListStaged(prefix) ==
    /\ prefix \in unread
    /\ unread' = unread \ {prefix}
    /\ inventory' = inventory \cup { e \in Evidence : Prefix[e] = prefix }
    /\ UNCHANGED <<prefixes, published, call, answer, issued>>

(* _validate_inventory_layout reads one directory *)
ListPrefix(prefix) ==
    /\ prefix \in unread
    /\ unread' = unread \ {prefix}
    /\ inventory' = inventory \cup { e \in published : Prefix[e] = prefix }
    /\ UNCHANGED <<prefixes, published, call, answer, issued>>

Place(e, set) == Cardinality({ x \in set : x < e })

(* Mutation: a cursor is good for any inventory. *)
AcceptedLater(c) ==
    \/ c.first
    \/ /\ c.chain.cursor.filter = c.filter
       /\ c.chain.cursor.offset < Cardinality(inventory)

(* Mutation: a cursor is good for any filters. *)
AcceptedElsewhere(c) ==
    \/ c.first
    \/ /\ c.chain.cursor.inventory = inventory
       /\ c.chain.cursor.offset < Cardinality(inventory)

(* _decode_cursor, and the check of the offset it gives *)
Accepted(c) ==
    \/ c.first
    \/ /\ c.chain.cursor.inventory = inventory
       /\ c.chain.cursor.filter = c.filter
       /\ c.chain.cursor.offset < Cardinality(inventory)

Candidates(c) ==
    { e \in inventory \cap c.filter : Place(e, inventory) >= c.chain.cursor.offset }

Page(c) == { e \in Candidates(c) : Place(e, Candidates(c)) < c.limit }

(* Mutation: the next page begins after the match that did not fit. *)
AfterNextOffsets(c) ==
    { Place(e, inventory) + 1 : e \in { e \in Candidates(c) :
                                          Place(e, Candidates(c)) = c.limit } }

(* The place of the match that did not fit, if there is one *)
NextOffsets(c) ==
    { Place(e, inventory) : e \in { e \in Candidates(c) :
                                      Place(e, Candidates(c)) = c.limit } }

Answer ==
    /\ call # Idle
    /\ unread = {}
    /\ call' = Idle
    /\ IF Accepted(call)
       THEN /\ answer' = [of |-> call, page |-> Page(call),
                          last |-> NextOffsets(call) = {}]
            /\ issued' = issued \cup
                 { [cursor |-> [inventory |-> inventory, filter |-> call.filter,
                                offset |-> next],
                    got |-> call.chain.got \cup Page(call),
                    known |-> call.chain.known] : next \in NextOffsets(call) }
       ELSE answer' = NoAnswer /\ UNCHANGED issued
    /\ UNCHANGED <<prefixes, published, unread, inventory>>

Init ==
    /\ prefixes = {} /\ published = {}
    /\ call = Idle /\ unread = {} /\ inventory = {}
    /\ answer = NoAnswer /\ issued = {}

Next ==
    \/ \E e \in Evidence : MakePrefix(e) \/ Publish(e)
    \/ \E filter \in Filters, limit \in Limits :
        \/ FirstPage(filter, limit)
        \/ \E chain \in issued : NextPage(chain, filter, limit)
    \/ \E prefix \in unread : ListPrefix(prefix)
    \/ Answer

Spec == Init /\ [][Next]_vars

(***************************************************************************)
(* Properties.                                                             *)
(***************************************************************************)

TypeOK ==
    /\ prefixes \subseteq { Prefix[e] : e \in Evidence }
    /\ published \subseteq Evidence
    /\ call \in Calls \cup {Idle}
    /\ unread \subseteq prefixes
    /\ inventory \subseteq published
    /\ answer.page \subseteq published
    /\ issued \subseteq Chains

(* Everything the pages of one chain returned, with the last answer *)
Collected == answer.of.chain.got \cup answer.page

(* A chain of pages that ends has returned all the evidence that matched and
   was published when the chain began, whatever was published meanwhile and
   however the page size changed; and nothing that does not match. *)
ChainsComplete ==
    answer.last =>
        /\ answer.of.chain.known \cap answer.of.filter \subseteq Collected
        /\ Collected \subseteq published \cap answer.of.filter

(* Pages come in the order of the inventory, and none repeats an entry. *)
PagesInOrder ==
    \A x \in answer.of.chain.got, y \in answer.page : x < y

(* A cursor always names a page that has something to return. *)
CursorsLeadSomewhere ==
    \A chain \in issued :
        LET c == chain.cursor
        IN  \E e \in c.inventory \cap c.filter :
                Place(e, c.inventory) = c.offset /\ e \notin chain.got

=============================================================================
