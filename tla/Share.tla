---- MODULE Share ----
(***************************************************************************)
(* Shared programs (share.go, store.go) and the two handlers that serve    *)
(* them: handleShare for the page's script and handleEdit (edit.go) for    *)
(* the page itself.  Texts are values; ID, a hash of which 66 bits or more *)
(* are kept, tells them apart.  Handlers are operators from a request and  *)
(* the store to a response; only PutSnippet changes the store, and the end *)
(* of the process, for it is a map in memory (main.go:23).                 *)
(***************************************************************************)
EXTENDS Naturals

CONSTANTS
    Texts,      \* programs
    Ids,        \* identifiers
    ID,         \* the identifier of a program
    TooLarge,   \* texts of more than maxSnippetSize
    Examples,   \* what newExamplesHandler read
    Hello       \* the first of them

ASSUME ShareAssumption ==
    /\ ID \in [Texts -> Ids]
    /\ \A s, t \in Texts : ID[s] = ID[t] => s = t
    /\ TooLarge \subseteq Texts /\ Examples \subseteq Texts /\ Hello \in Examples

VARIABLES
    store,      \* inMemStore.m
    restarted   \* history: the process was restarted

storeVars == <<store, restarted>>

\* Addresses: "/", "/p/" with an identifier, and the first five characters of
\* such an address, which inputChanged makes of it.
Root == [at |-> "/", id |-> "none"]
Link(id) == [at |-> "/p/", id |-> id]
Cut == [at |-> "/p/xx", id |-> "none"]
Addresses == {Root, Cut} \union {Link(id) : id \in Ids}

StoreOK ==
    /\ DOMAIN store \subseteq Ids
    /\ \A id \in DOMAIN store : store[id] \in Texts \ TooLarge
    /\ restarted \in BOOLEAN

StoreInit == store = <<>> /\ restarted = FALSE

---------------------------------------------------------------------------
Found(id) == id \in DOMAIN store
GetSnippet(id) == store[id]
PutSnippet(id, text) ==
    store' = [i \in DOMAIN store \union {id} |-> IF i = id THEN text ELSE store[i]]

OK(answer) == answer.status = 200
NoAnswer == [status |-> 0]
Status(n) == [status |-> n]

\* The largest text is checked before anything is stored; reading may fail.
handleSharePost(text, answer) ==
    \/ /\ text \notin TooLarge
       /\ PutSnippet(ID[text], text)
       /\ answer = [status |-> 200, id |-> ID[text]]
    \/ /\ text \in TooLarge
       /\ answer = Status(413) /\ UNCHANGED store
    \/ answer = Status(500) /\ UNCHANGED store

handleShareGet(id) ==
    IF Found(id) THEN [status |-> 200, text |-> GetSnippet(id)] ELSE Status(404)

\* The program the page is served with; no other address has a page.
handleEdit(address) ==
    IF address.at \notin {"/", "/p/"} THEN Status(404)
    ELSE IF address.at = "/p/" THEN handleShareGet(address.id)
    ELSE [status |-> 200, text |-> Hello]

\* /doc/play/ with the name of an example.
serveExample == {[status |-> 200, text |-> t] : t \in Examples}

Restarts ==
    /\ ~restarted
    /\ store' = <<>> /\ restarted' = TRUE

====
