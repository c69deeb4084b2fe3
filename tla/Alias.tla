-------------------------------- MODULE Alias -------------------------------
(***************************************************************************)
(* Aliases: the files of alias/ hold a portion of a query, and =name in a  *)
(* store/ path that reaches @ or @@ stands for it.                         *)
(* tagsistant_expand_path() (src/src/path_resolution.c) replaces one alias *)
(* at a time until none is left; every replacement reads the aliases table *)
(* again.  Requests that start a transaction hold the write lock, all      *)
(* others, write() and truncate() included, share the read lock.           *)
(*                                                                         *)
(* A path is the sequence of its tokens; the name of an alias, as a token, *)
(* stands for =name.                                                       *)
(***************************************************************************)
EXTENDS Integers, SequencesExt

CONSTANTS
    Threads,  \* threads of the FUSE loop
    Names,    \* names of aliases
    Tags,     \* all other tokens
    Debris,   \* what is left of a longer name whose head was taken for an alias
    Missing,  \* no row: tagsistant_sql_alias_get() returns NULL
    Prefix,   \* <<m, n>>: the name m is a proper prefix of the name n
    Values,   \* [Names -> what clients write to that alias]
    Paths,    \* the store/ paths clients ask for
    Ops,      \* the requests clients make
    MaxPath,  \* bound: tokens of a path that is being expanded
    MaxEdits  \* bound: requests that edit the aliases table

StoreOps == {"query", "update", "target"}
AliasOps == {"create", "delete", "rename", "write", "truncate", "getattr"}
Token == Names \cup Tags \cup {Debris}

ASSUME AliasAssumption ==
    /\ Prefix \subseteq Names \X Names
    /\ Ops \subseteq StoreOps \cup AliasOps
    /\ MaxPath \in Nat /\ MaxEdits \in Nat
ASSUME QueriesAssumption ==
    /\ Missing \notin Seq(Token) /\ Paths \subseteq Seq(Token)
    /\ \A n \in Names : Values[n] \subseteq Seq(Token)

VARIABLES
    aliases,  \* the aliases table: [Names -> query or Missing]
    call,     \* the request each thread serves
    stale,    \* threads whose request met an edit of the table after it took the lock
    edits     \* requests so far that edit the table

vars == <<aliases, call, stale, edits>>

NoCall == [op |-> "none", step |-> "idle", alias |-> Missing, value |-> <<>>,
           path |-> <<>>, pattern |-> Missing, done |-> <<>>]

TypeOK ==
    /\ aliases \in [Names -> Seq(Token) \cup {Missing}]
    /\ \A t \in Threads :
        /\ call[t].op \in {"none"} \cup Ops
        /\ call[t].step \in {"idle", "lock", "expand", "replace", "handler", "length"}
        /\ call[t].alias \in Names \cup {Missing}
        /\ call[t].pattern \in Names \cup {Missing}
        /\ call[t].path \in Seq(Token) /\ call[t].done \in Seq(Token)
    /\ stale \subseteq Threads
    /\ edits \in 0 .. MaxEdits

Init ==
    /\ aliases = [n \in Names |-> Missing]
    /\ call = [t \in Threads |-> NoCall]
    /\ stale = {}
    /\ edits = 0

-----------------------------------------------------------------------------
(* Requests, and the lock tagsistant_db_connection() takes for them        *)

\* Mutant: unlink() starts no transaction.
StartsTransactionButUnlink(op) == op \in {"update", "target", "create", "rename"}

\* The start_transaction argument the handler gives tagsistant_querytree_new().
StartsTransaction(op) == op \in {"update", "target", "create", "delete", "rename"}

Edit(op) == op \in AliasOps \ {"getattr"}
Serving(t) == call[t].step \notin {"idle", "lock"}

Request(t, c) ==
    /\ call[t].step = "idle"
    /\ Edit(c.op) => edits < MaxEdits
    /\ call' = [call EXCEPT ![t] = c]
    /\ edits' = IF Edit(c.op) THEN edits + 1 ELSE edits
    /\ UNCHANGED <<aliases, stale>>

\* value holds what the client sent: the path it asked for, or the new
\* content; alias is the file of alias/ it named, pattern the target of a rename.
StoreRequest(t, op, p) ==
    op \in StoreOps /\ Request(t, [NoCall EXCEPT !.op = op, !.step = "lock", !.value = p, !.path = p])

AliasRequest(t, op, n, v, to) ==
    /\ op \in AliasOps
    /\ Request(t, [NoCall EXCEPT !.op = op, !.step = "lock", !.alias = n, !.value = v, !.pattern = to])

TakeLock(t) ==
    /\ call[t].step = "lock"
    /\ \A u \in Threads \ {t} :
        Serving(u) => ~StartsTransaction(call[t].op) /\ ~StartsTransaction(call[u].op)
    /\ call' = [call EXCEPT ![t].step = IF call[t].op \in StoreOps THEN "expand" ELSE "handler"]
    /\ stale' = stale \ {t}
    /\ UNCHANGED <<aliases, edits>>

-----------------------------------------------------------------------------
(* tagsistant_expand_path()                                                *)

\* tagsistant_expand_path_callback(): an alias that is not in the table, and
\* any alias in the second path of a rename(), whose query tree has no
\* connection yet, is replaced by nothing.
Expansion(t, n) ==
    IF call[t].op = "target" \/ aliases[n] = Missing THEN <<>> ELSE aliases[n]

\* The regular expression made of the pattern is not anchored at its end.
Matches(pattern, token) == token = pattern \/ <<pattern, token>> \in Prefix

\* g_regex_match() against =([^/]+)
AliasesIn(p) == {i \in DOMAIN p : p[i] \in Names}

\* The leftmost alias of the path becomes the pattern to replace.
Match(t) ==
    /\ call[t].step = "expand" /\ AliasesIn(call[t].path) # {}
    /\ call' = [call EXCEPT ![t].step = "replace",
                            ![t].pattern = call[t].path[Min(AliasesIn(call[t].path))],
                            ![t].done = <<>>]
    /\ UNCHANGED <<aliases, stale, edits>>

MatchesIn(t) == {i \in DOMAIN call[t].path : Matches(call[t].pattern, call[t].path[i])}

\* Mutant: the text between two matches is lost.
ReplaceAndSkip(t) ==
    /\ call[t].step = "replace" /\ MatchesIn(t) # {}
    /\ call' = [call EXCEPT
            ![t].done = @ \o Expansion(t, call[t].pattern),
            ![t].path = SubSeq(@, Min(MatchesIn(t)) + 1, Len(@))]
    /\ UNCHANGED <<aliases, stale, edits>>

\* One call of the callback of g_regex_replace_eval(): the next match, with
\* the text before it.
Replace(t) ==
    /\ call[t].step = "replace" /\ MatchesIn(t) # {}
    /\ LET i == Min(MatchesIn(t))
           rest == IF call[t].path[i] = call[t].pattern THEN <<>> ELSE <<Debris>>
           done == call[t].done \o SubSeq(call[t].path, 1, i - 1)
                    \o Expansion(t, call[t].pattern) \o rest
       IN  /\ Len(done) + Len(call[t].path) - i <= MaxPath
           /\ call' = [call EXCEPT ![t].done = done,
                                   ![t].path = SubSeq(@, i + 1, Len(@))]
    /\ UNCHANGED <<aliases, stale, edits>>

\* Mutant: the next match is sought in the path as it came.
ReplacedForNothing(t) ==
    /\ call[t].step = "replace" /\ MatchesIn(t) = {}
    /\ call' = [call EXCEPT ![t].step = "expand", ![t].path = call[t].value,
                            ![t].done = <<>>, ![t].pattern = Missing]
    /\ UNCHANGED <<aliases, stale, edits>>

\* No match is left: the replaced path is matched again from its start.
Replaced(t) ==
    /\ call[t].step = "replace" /\ MatchesIn(t) = {}
    /\ call' = [call EXCEPT ![t].step = "expand", ![t].path = call[t].done \o @,
                            ![t].done = <<>>, ![t].pattern = Missing]
    /\ UNCHANGED <<aliases, stale, edits>>

\* No alias is left: the query is parsed and the handler runs.
Expanded(t) ==
    /\ call[t].step = "expand" /\ AliasesIn(call[t].path) = {}
    /\ call' = [call EXCEPT ![t].step = "handler"]
    /\ UNCHANGED <<aliases, stale, edits>>

\* tagsistant_querytree_destroy() gives the lock back.
Answer(t) ==
    /\ call[t].step = "handler" /\ call[t].op \in StoreOps
    /\ call' = [call EXCEPT ![t] = NoCall]
    /\ UNCHANGED <<aliases, stale, edits>>

-----------------------------------------------------------------------------
(* The alias branches of the handlers                                      *)

Handles(t, op) == call[t].step = "handler" /\ call[t].op = op

Save(t, table) ==
    /\ aliases' = table
    /\ stale' = IF table = aliases THEN stale ELSE stale \cup {u \in Threads \ {t} : Serving(u)}
    /\ call' = [call EXCEPT ![t] = NoCall]
    /\ UNCHANGED edits

\* mknod(): tagsistant_sql_alias_create()
Create(t) ==
    /\ Handles(t, "create")
    /\ Save(t, [aliases EXCEPT ![call[t].alias] = IF @ = Missing THEN <<>> ELSE @])

\* unlink(): tagsistant_sql_alias_delete()
Delete(t) ==
    /\ Handles(t, "delete")
    /\ Save(t, [aliases EXCEPT ![call[t].alias] = Missing])

\* The update of one row, if it is there: tagsistant_sql_alias_set()
Set(n, v) == [aliases EXCEPT ![n] = IF @ = Missing THEN Missing ELSE v]

Write(t) == Handles(t, "write") /\ Save(t, Set(call[t].alias, call[t].value))

Truncate(t) == Handles(t, "truncate") /\ Save(t, Set(call[t].alias, <<>>))

\* rename(): alias is the primary key, so the update fails, unnoticed, when
\* the new name is taken.
Renamed(from, to) ==
    IF aliases[from] = Missing \/ aliases[to] # Missing THEN aliases
    ELSE [aliases EXCEPT ![to] = aliases[from], ![from] = Missing]

Rename(t) == Handles(t, "rename") /\ Save(t, Renamed(call[t].alias, call[t].pattern))

\* getattr(): tagsistant_sql_alias_exists(), or ENOENT
GetattrExists(t) ==
    /\ Handles(t, "getattr")
    /\ call' = [call EXCEPT ![t] =
            IF aliases[call[t].alias] = Missing THEN NoCall ELSE [@ EXCEPT !.step = "length"]]
    /\ UNCHANGED <<aliases, stale, edits>>

\* tagsistant_sql_alias_get_length(): strlen() of what the second query returns
GetattrLength(t) ==
    /\ call[t].step = "length" /\ aliases[call[t].alias] # Missing
    /\ call' = [call EXCEPT ![t] = NoCall]
    /\ UNCHANGED <<aliases, stale, edits>>

-----------------------------------------------------------------------------
Serve(t) ==
    \/ TakeLock(t)
    \/ Match(t) \/ Replace(t) \/ Replaced(t) \/ Expanded(t) \/ Answer(t)
    \/ Create(t) \/ Delete(t) \/ Write(t) \/ Truncate(t) \/ Rename(t)
    \/ GetattrExists(t) \/ GetattrLength(t)

Next ==
    \E t \in Threads :
        \/ \E op \in Ops \cap StoreOps, p \in Paths : StoreRequest(t, op, p)
        \/ \E op \in Ops \cap (AliasOps \ {"write", "rename"}), n \in Names :
            AliasRequest(t, op, n, <<>>, Missing)
        \/ \E n \in Names : \E v \in Values[n] :
            "write" \in Ops /\ AliasRequest(t, "write", n, v, Missing)
        \/ \E n, m \in Names : "rename" \in Ops /\ n # m /\ AliasRequest(t, "rename", n, <<>>, m)
        \/ Serve(t)

Spec == Init /\ [][Next]_vars

\* A request that was delivered is served as far as it can be: every thread
\* of the FUSE loop runs.
FairSpec == Spec /\ \A t \in Threads : WF_vars(Serve(t))

-----------------------------------------------------------------------------
(* Properties                                                              *)

\* What a path means: all aliases replaced at once, as often as an alias can
\* stand inside another one.
ValueOf(table, x) ==
    IF x \notin Names THEN <<x>> ELSE IF table[x] = Missing THEN <<>> ELSE table[x]
AllReplaced(table, p) == FlattenSeq([i \in DOMAIN p |-> ValueOf(table, p[i])])
Meaning(table, p) ==
    LET Round[k \in Nat] == IF k = 0 THEN p ELSE AllReplaced(table, Round[k - 1])
    IN  Round[Cardinality(Names)]

\* Aliases that stand, through other aliases, inside themselves.
Inside(n) == {m \in Names : aliases[n] # Missing /\ m \in Range(aliases[n])}
Acyclic ==
    LET Reach[k \in Nat] ==
            IF k = 0 THEN [n \in Names |-> Inside(n)]
            ELSE [n \in Names |-> Inside(n) \cup UNION {Reach[k - 1][m] : m \in Inside(n)}]
    IN  \A n \in Names : n \notin Reach[Cardinality(Names)][n]

Exact(t) == Handles(t, call[t].op) /\ t \notin stale => call[t].path = Meaning(aliases, call[t].value)

\* "When the user includes the alias in a query it gets expanded" (ChangeLog:10):
\* the query that is parsed is the one the aliases stand for, however they
\* are nested and repeated, when no edit came in between.
ExpandsExactly == \A t \in Threads : call[t].op \in {"query", "update"} => Exact(t)

\* The same for the new path of a rename().
TargetsExpand == \A t \in Threads : call[t].op = "target" => Exact(t)

\* strlen() in tagsistant_sql_alias_get_length() gets a string: the alias that
\* getattr() found is still there at the second query.
AliasStaysForGetattr ==
    \A t \in Threads : call[t].step = "length" => aliases[call[t].alias] # Missing

\* A request that met no alias that contains itself ends, although the table
\* is edited while it is expanded.
ExpansionEnds == []Acyclic => \A t \in Threads : call[t].step = "expand" ~> call[t].step = "idle"

\* Every query that includes an alias gets expanded.
AliasesExpand == \A t \in Threads : call[t].step = "expand" ~> call[t].step = "handler"

=============================================================================
