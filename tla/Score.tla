-------------------------------- MODULE Score --------------------------------
(***************************************************************************)
(* The score: its objects, the connections from the outlets of one to the  *)
(* inlets of another, the links that make objects move as a group, the     *)
(* order in which changes are passed on, and saving (lib/algoscore.nas,    *)
(* and the parts of lib/score_ui.nas that call it).                        *)
(*                                                                         *)
(* The whole score is one record, as it is one object in the code, and     *)
(* each operator below is a method: it takes the score and returns what    *)
(* the method leaves.  Of an object the model keeps its place in the       *)
(* tables and four facts: whether it waits for an update (the red bar),    *)
(* whether its own delay_update is set, whether its generate() would raise *)
(* an error, and, which the code does not store, whether its data are      *)
(* stale: made before the last change of something they depend on.         *)
(***************************************************************************)
EXTENDS Integers, FiniteSets, Sequences, SequencesExt

CONSTANTS
    MaxId,      \* bound: objects are numbered 0..MaxId
    Inlets,     \* bound: Inlets[o] are the inlets users connect of object o
    Practice    \* which of Practices the users of this instance follow

Practices ==
    { "links",            \* link objects
      "busses",           \* create output busses
      "delay",            \* set delay_update of objects nothing depends on
      "inner delay",      \* and of objects that others depend on
      "failing",          \* leave errors in the scripts of objects
      "single update",    \* update one object that depends on waiting ones
      "align groups",     \* align an object that is linked already
      "bus groups",       \* link output busses
      "delete moved",     \* delete a linked object in the middle of its drag
      "negative start",   \* drag a group of which a member starts before 0
      "cycles" }          \* connect objects in a circle

ASSUME ScoreAssumption ==
    /\ MaxId \in Nat
    /\ DOMAIN Inlets = 0 .. MaxId
    /\ Practice \subseteq Practices

VARIABLE score

Ids == 0 .. MaxId

\* An absent object has no children, no links and itself as its group.
Empty ==
    [ objects |-> {}, lastId |-> 0, hold |-> FALSE,
      conn |-> {},                      \* <<source, inlet, destination>>
      children |-> [o \in Ids |-> {}],
      links |-> [o \in Ids |-> {}],
      group |-> [o \in Ids |-> {o}],
      busses |-> {},                    \* those with a fixed_start
      pending |-> {}, delayed |-> {}, failing |-> {}, stale |-> {} ]

\* What op makes of base with each of the objects S, in order of their numbers.
InOrder(op(_, _), base, S) ==
    MapThenFoldSet(LAMBDA o, v : op(v, o), base, LAMBDA o : o, Max, S)

------------------------------------------------------------------------------
(***************************************************************************)
(* What depends on what.                                                   *)
(***************************************************************************)
Sources(s, d) == {c[1] : c \in {k \in s.conn : k[3] = d}}
HasParents(s, d) == Sources(s, d) # {}
Dependants(s, S) == {c[3] : c \in {k \in s.conn : k[1] \in S}}

\* S and everything that takes data, directly or not, from an object of S.
Onward(s, S) ==
    LET upTo[n \in 0 .. MaxId] ==
            IF n = 0 THEN S ELSE upTo[n - 1] \cup Dependants(s, upTo[n - 1])
    IN  upTo[MaxId]

\* A change by which the data of S, and so of all that follows, get stale.
Changed(s, S) == [s EXCEPT !.stale = @ \cup Onward(s, S)]

\* The walks of the code go down the children and stop at skip; one that
\* comes back to where it was goes on until the interpreter's stack is full.
Endless(s, o, skip) ==
    LET after[n \in 0 .. MaxId + 1] ==
            IF n = 0 THEN {o}
            ELSE UNION {s.children[x] \ skip : x \in after[n - 1]}
    IN  after[MaxId + 1] # {}

\* get_object_tree of an object adds it to the list behind what it leads to:
\* Walks(s, skip)[o][seen] is the list after that.  Here a walk is at most n
\* levels deep, and one that is deeper is Endless.
Following(walks, seen, S) == InOrder(LAMBDA v, o : walks[o][v], seen, S)

Walks(s, skip) ==
    LET to[n \in Ids] ==
            [o \in Ids |-> [seen \in Seq(Ids) |->
                LET below == IF n = 0 THEN seen
                             ELSE Following(to[n - 1], seen, s.children[o] \ skip)
                IN  IF Contains(below, o) THEN below ELSE Append(below, o)]]
    IN  to[MaxId]

\* get_object_tree of an object, of the score, and of a list of objects, in
\* which every object counts as a top: has_parents_in looks for the keys of
\* a hash in a vector and finds none.  (Mutant: the list is not reversed.)
ObjectTree(s, o) == Reverse(Walks(s, {o})[o][<<>>])
ListTree_Upwards(s, tops) == Following(Walks(s, {}), <<>>, tops)
ListTree(s, tops) == Reverse(Following(Walks(s, {}), <<>>, tops))
ScoreTree(s) == ListTree(s, {o \in s.objects : ~HasParents(s, o)})

------------------------------------------------------------------------------
(***************************************************************************)
(* Updates.  generate() takes the data of the sources as they are.         *)
(***************************************************************************)
UpdateNow(s, o) ==
    IF o \in s.failing THEN [s EXCEPT !.pending = @ \cup {o}]
    ELSE [s EXCEPT !.pending = @ \ {o},
                   !.stale = IF Sources(s, o) \cap s.stale = {}
                             THEN @ \ {o} ELSE @]

\* children_only: 0 for the object and its children, 1 for the children only,
\* -1 for the object now and its children as usual.  The first error ends it.
UpdateStep(q, o, me, children_only) ==
    IF q.stop \/ (children_only = 1 /\ o = me) THEN q
    ELSE IF /\ o \in q.to.delayed \/ q.to.hold
            /\ children_only >= 0 \/ o # me
         THEN [q EXCEPT !.to.pending = @ \cup {o}]
    ELSE [to |-> UpdateNow(q.to, o), stop |-> o \in q.to.failing]

UpdateAlong(q, tree, me, children_only) ==
    FoldLeft(LAMBDA r, o : UpdateStep(r, o, me, children_only), q, tree)

Update(s, me, children_only) ==
    UpdateAlong([to |-> s, stop |-> FALSE], ObjectTree(s, me), me, children_only).to

\* (Mutant: the button leaves what has a delay_update of its own.)
Asks_Unforced(s, o, force) == o \notin s.delayed /\ o \in s.pending
Asks(s, o, force) == (o \notin s.delayed \/ force) /\ o \in s.pending

UpdateAsked(s, o, force) == IF Asks(s, o, force) THEN UpdateNow(s, o) ELSE s

UpdateAll(s, tree, force) ==
    FoldLeft(LAMBDA t, o : UpdateAsked(t, o, force), s, tree)

Hold(s) == [s EXCEPT !.hold = TRUE]
\* (Mutant: what has been queued meanwhile stays queued.)
Unhold_Only(s, state, tree) == [s EXCEPT !.hold = state]
Unhold(s, state, tree) ==
    LET t == [s EXCEPT !.hold = state]
    IN  IF state THEN t ELSE UpdateAll(t, tree, FALSE)

------------------------------------------------------------------------------
(***************************************************************************)
(* Connections.                                                            *)
(***************************************************************************)
\* Whether another inlet of d is still connected with src (mutant: not asked).
Remains_Never(conn, src, d) == FALSE
Remains(conn, src, d) == \E k \in conn : k[1] = src /\ k[3] = d

InletDisconnect(s, d, src, i) ==
    LET left == s.conn \ {<<src, i, d>>}
    IN  IF <<src, i, d>> \notin s.conn THEN s
        ELSE [s EXCEPT !.conn = left,
                       !.children[src] =
                            IF Remains(left, src, d) THEN @ ELSE @ \ {d}]

Disconnect(s, d, src, i) ==
    IF <<src, i, d>> \notin s.conn THEN s
    ELSE Update(Changed(InletDisconnect(s, d, src, i), {d}), d, 0)

\* Also the replacement of a connection by one from another outlet.
Connect(s, d, src, i) ==
    LET t == [s EXCEPT !.conn = @ \cup {<<src, i, d>>},
                       !.children[src] = @ \cup {d}]
    IN  Update(Changed(t, {d}), d, 0)

------------------------------------------------------------------------------
(***************************************************************************)
(* Links.                                                                  *)
(***************************************************************************)
AddGroup(s, a, b) ==
    LET g == s.group[a] \cup s.group[b] \cup {a, b}
    IN  [s EXCEPT !.group = [o \in Ids |-> IF o \in g THEN g ELSE @[o]]]

RebuildGroups(s, me) ==
    LET g == s.group[me]
        apart == [s EXCEPT !.group = [o \in Ids |-> IF o \in g THEN {o} ELSE @[o]]]
        pairs == {p \in g \X Ids : p[2] \in s.links[p[1]]}
    IN  FoldSet(LAMBDA p, t : AddGroup(t, p[1], p[2]), apart, pairs)

AddLink(s, me, src) ==
    IF src = me THEN s
    ELSE AddGroup([s EXCEPT !.links[src] = @ \ {me}, !.links[me] = @ \cup {src}],
                  me, src)

IsLinked(s, me, src) == src \in s.links[me] \/ me \in s.links[src]

RemoveLink(s, me, src) ==
    IF ~IsLinked(s, me, src) THEN s
    ELSE RebuildGroups([s EXCEPT !.links[me] = @ \ {src}, !.links[src] = @ \ {me}], me)

RemoveAllLinks(s, me) ==
    RebuildGroups([s EXCEPT !.links = [o \in Ids |->
                        IF o = me THEN {}
                        ELSE IF o \in s.group[me] THEN @[o] \ {me} ELSE @[o]]],
                  me)

------------------------------------------------------------------------------
(***************************************************************************)
(* Objects.                                                                *)
(***************************************************************************)
FreeId(s) ==
    CHOOSE k \in s.lastId .. (MaxId + 1) :
        k \notin s.objects /\ \A j \in s.lastId .. (k - 1) : j \in s.objects

\* new_obj_by_name, of an output bus or not, with the update at its end.
NewObject(s, bus) ==
    LET k == FreeId(s)
        t == [s EXCEPT !.objects = @ \cup {k}, !.lastId = k,
                       !.busses = IF bus THEN @ \cup {k} ELSE @,
                       !.children[k] = {}, !.links[k] = {}, !.group[k] = {k}]
    IN  Update(Changed(t, {k}), k, 0)

DisconnectOutlets(s, me, outward) ==
    FoldSet(LAMBDA k, t : Disconnect(t, k[3], me, k[2]), s, outward)
DisconnectInlets(s, me, inward) ==
    FoldSet(LAMBDA k, t : InletDisconnect(t, me, k[1], k[2]), s, inward)

DestroyObject(s, me) ==
    LET cut == DisconnectOutlets(Hold(s), me, {k \in s.conn : k[1] = me})
        free == DisconnectInlets(cut, me, {k \in s.conn : k[3] = me})
        alone == RemoveAllLinks(free, me)
        gone == [alone EXCEPT !.objects = @ \ {me}, !.busses = @ \ {me},
                              !.pending = @ \ {me},
                              !.delayed = @ \ {me}, !.failing = @ \ {me},
                              !.stale = @ \ {me}]
    IN  Unhold(gone, s.hold, ScoreTree(gone))

SetDelay(s, o, on) ==
    Update([s EXCEPT !.delayed = IF on THEN @ \cup {o} ELSE @ \ {o}], o, 0)

\* A property or the length of o is set; its script has an error or has none.
Edited(s, o, error) ==
    Update(Changed([s EXCEPT !.failing = IF error THEN @ \cup {o} ELSE @ \ {o}], {o}),
           o, 0)

\* The place of S in time counts where data come in and where they go.
Moved(s, S) == Changed(s, {o \in S : HasParents(s, o)} \cup Dependants(s, S))

\* (Mutant: an object without parents is taken for one without connections.)
MoveDone_WithParents(s, o) == IF HasParents(s, o) THEN Update(s, o, 0) ELSE s
MoveDone(s, o) ==
    IF HasParents(s, o) THEN Update(s, o, 0)
    ELSE IF s.children[o] # {} THEN Update(s, o, 1) ELSE s

GroupMoveDone(s, g) == InOrder(MoveDone, s, g)

\* The end of a drag: the group has shifted, but for the busses in it, or has
\* not, and the members told have their move_done.
DragEnd(s, me, shifted, told) ==
    LET g == s.group[me]
        held == Hold(IF shifted THEN Moved(s, g \ s.busses) ELSE s)
        done == GroupMoveDone(held, told)
    IN  Unhold(done, s.hold, ListTree(done, g))

\* The end of an alignment.  The loop over the group calls me.obj.move_done.
AlignEnd(s, me, target, do_link) ==
    LET t == MoveDone(Moved(s, s.group[me] \ s.busses), me)
    IN  IF do_link THEN AddLink(t, me, target) ELSE t

------------------------------------------------------------------------------
(***************************************************************************)
(* The file: a program of assignments, one group of lines for each object  *)
(* of the tree and one line for each link, that names objects after their  *)
(* numbers at the time of saving.                                          *)
(***************************************************************************)
Dump(s) ==
    LET Line(o) == [ name |-> o, bus |-> o \in s.busses,
                     delay |-> o \in s.delayed, error |-> o \in s.failing,
                     conn |-> {k \in s.conn : k[3] = o} ]
        tree == ScoreTree(s)
    IN
    [ lines |-> [n \in DOMAIN tree |-> Line(tree[n])],
      links |-> {p \in s.objects \X Ids : p[2] \in s.links[p[1]]} ]

\* Running the file.  env binds the names; the use of an unbound one is an
\* error that ends the run.
Made(t, env, e) ==
    [ to |-> SetDelay(Edited(t, t.lastId, e.error), t.lastId, e.delay),
      env |-> [n \in DOMAIN env \cup {e.name} |->
                   IF n = e.name THEN t.lastId ELSE env[n]],
      ok |-> TRUE ]

Wire(q, k) ==
    IF ~q.ok \/ k[1] \notin DOMAIN q.env THEN [q EXCEPT !.ok = FALSE]
    ELSE [q EXCEPT !.to = Connect(@, q.env[k[3]], q.env[k[1]], k[2])]

Tie(q, p) ==
    IF ~q.ok \/ ~({p[1], p[2]} \subseteq DOMAIN q.env) THEN [q EXCEPT !.ok = FALSE]
    ELSE [q EXCEPT !.to = AddLink(@, q.env[p[1]], q.env[p[2]])]

WireAll(q, conn) == FoldSet(LAMBDA k, r : Wire(r, k), q, conn)
TieAll(q, links) == FoldSet(LAMBDA p, r : Tie(r, p), q, links)

RunLine(q, e) ==
    IF q.ok THEN WireAll(Made(NewObject(q.to, e.bus), q.env, e), e.conn) ELSE q

RunLines(q, lines) == FoldLeft(RunLine, q, lines)

Replay(file) ==
    TieAll(RunLines([to |-> Hold(Empty), env |-> <<>>, ok |-> TRUE], file.lines),
           file.links)

\* load_from_file: after an error the updates are still held.
Loaded(run, hold) ==
    IF run.ok THEN Unhold(run.to, hold, ScoreTree(run.to)) ELSE run.to

------------------------------------------------------------------------------
(***************************************************************************)
(* What the user does.                                                     *)
(***************************************************************************)
Init == score = Empty

\* Also the duplication of an object: a new one whose properties are set.
Create ==
    \E bus \in BOOLEAN :
        /\ FreeId(score) \in Ids
        /\ bus => "busses" \in Practice
        /\ score' = NewObject(score, bus)

ConnectTo ==
    \E d, src \in score.objects : \E i \in Inlets[d] :
        /\ src # d
        /\ src \notin score.busses       \* which have no outlets
        /\ IF "cycles" \in Practice
           THEN /\ ~Endless(score, d, {src})
                /\ LET t == [score EXCEPT !.children[src] = @ \cup {d}]
                   IN  \A o \in Ids : ~Endless(t, o, {o})
           ELSE src \notin Onward(score, {d})
        /\ "inner delay" \in Practice \/ src \notin score.delayed
        /\ score' = Connect(score, d, src, i)

DisconnectFrom ==
    \E k \in score.conn : score' = Disconnect(score, k[3], k[1], k[2])

\* An object is deleted while it is held, and its group may have moved with it
\* by then.  The tool lets go of it afterwards, which does nothing more: o has
\* neither parents, children nor links then, and the others are told nothing.
Destroy ==
    \E o \in score.objects, slid \in BOOLEAN :
        /\ slid => "delete moved" \in Practice
        /\ LET others == score.group[o] \ ({o} \cup score.busses)
           IN  score' = DestroyObject(IF slid THEN Moved(score, others) ELSE score, o)

Edit ==
    \E o \in score.objects, error \in BOOLEAN :
        /\ error => "failing" \in Practice
        /\ score' = Edited(score, o, error)

SetDelayUpdate ==
    \E o \in score.objects, on \in BOOLEAN :
        /\ "delay" \in Practice
        /\ on => "inner delay" \in Practice \/ score.children[o] = {}
        /\ score' = SetDelay(score, o, on)

MayLink(o, target) ==
    /\ "links" \in Practice
    /\ "bus groups" \in Practice \/ {o, target} \cap score.busses = {}

Link ==
    \E o, target \in score.objects :
        MayLink(o, target) /\ score' = AddLink(score, o, target)

Unlink ==
    \E o, target \in score.objects :
        IsLinked(score, o, target) /\ score' = RemoveLink(score, o, target)

\* Whether to tell a member is asked of the object under the pointer, o, whose
\* start a bus never changes, before the turn of each member: when o itself has
\* had its turn, it is back from before zero, and so is what came before it in
\* the hash.  A drag may thus end where it began with some members told, and,
\* from before zero, elsewhere with some untold.
\* The end of a drag of part of a circle, which dies on an Endless walk when
\* the updates are let go, is left out.
Drag ==
    \E o \in score.objects :
        /\ \A x \in score.group[o] : ~Endless(score, x, {})
        /\ \E shifted \in BOOLEAN, told \in SUBSET score.group[o] :
            /\ \/ o \in score.busses /\ told = {}
               \/ o \notin score.busses /\ (o \in told <=> shifted)
            /\ \/ o \in score.busses \/ ~shifted \/ told = score.group[o]
               \/ "negative start" \in Practice
            /\ score' = DragEnd(score, o, shifted, told)

Align ==
    \E o, target \in score.objects, do_link \in BOOLEAN :
        /\ o # target
        /\ \/ score.group[o] # score.group[target]
           \/ Cardinality(score.group[o]) < 2
           \/ IsLinked(score, o, target)
        /\ do_link => MayLink(o, target)
        /\ "align groups" \in Practice \/ score.group[o] = {o}
        /\ score' = AlignEnd(score, o, target, do_link)

\* The button for automatic updates.
ToggleHold ==
    LET t == [score EXCEPT !.hold = ~@]
    IN  score' = IF t.hold THEN t ELSE UpdateAll(t, ScoreTree(t), FALSE)

\* The button for all updates that wait, and ctrl-U.
UpdateButton == score' = UpdateAll(score, ScoreTree(score), TRUE)

\* The key u on an object.
UpdateKey ==
    \E o \in score.objects :
        /\ \/ "single update" \in Practice
           \/ Sources(score, o) \cap score.pending = {}
        /\ score' = Update(score, o, -1)

\* Saving and opening the file.  Opening an older one leads to the state that
\* this led to then, since nothing but hold outlives it.
Reopen == score' = Loaded(Replay(Dump(score)), score.hold)

Next ==
    \/ Create \/ Destroy \/ Edit \/ SetDelayUpdate
    \/ ConnectTo \/ DisconnectFrom
    \/ Link \/ Unlink \/ Drag \/ Align
    \/ ToggleHold \/ UpdateButton \/ UpdateKey \/ Reopen

Spec == Init /\ [][Next]_score

------------------------------------------------------------------------------
\* The fields of the score are tables of its objects.
TypeOK ==
    /\ score.objects \subseteq Ids /\ score.lastId \in Ids /\ score.hold \in BOOLEAN
    /\ \A c \in score.conn :
            c[1] \in score.objects /\ c[3] \in score.objects
    /\ \A f \in {score.children, score.links, score.group} :
            f \in [Ids -> SUBSET Ids]
    /\ \A S \in {score.busses, score.pending, score.delayed, score.failing, score.stale} :
            S \subseteq score.objects

\* What hangs together with o: the least set with o that no link leaves.
Tied(s, o) ==
    {x \in Ids : \A S \in SUBSET Ids :
        (o \in S /\ \A y \in S, z \in Ids : IsLinked(s, y, z) => z \in S)
            => x \in S}

\* The tables that are kept by hand beside one another say the same, whatever
\* is connected, disconnected inlet by inlet, linked, destroyed or loaded: the
\* children, which the walks go down, and the connections, which data go
\* along; the groups and what hangs together by links.  A link is kept at one
\* of its ends, and none leads to an object that is gone: rebuild_groups looks
\* links up in the group and raises an error for one that is not there.
TablesAgree ==
    /\ TypeOK
    /\ \A o \in Ids :
            /\ score.children[o] = Dependants(score, {o})
            /\ score.group[o] = Tied(score, o)
            /\ score.links[o] \subseteq score.objects
            /\ \A x \in score.links[o] : o \notin score.links[x]

\* All objects in need of update will be seen with the transparent red bar
\* (src/doc/output.t2t:68).
NeedsShown == score.stale \subseteq score.pending

\* When updates are not held, nothing waits but what asks to.
AutomaticMeansDone == ~score.hold => score.pending \subseteq score.delayed

\* What run made is the score s, with the numbers that new says.
Restores(run, new, s) ==
    /\ run.ok
    /\ DOMAIN new = s.objects
    /\ run.to.objects = {new[o] : o \in s.objects}
    /\ run.to.conn = {<<new[k[1]], k[2], new[k[3]]>> : k \in s.conn}
    /\ \A o \in s.objects :
           /\ run.to.links[new[o]] = {new[x] : x \in s.links[o]}
           /\ new[o] \in run.to.delayed <=> o \in s.delayed
           /\ new[o] \in run.to.busses <=> o \in s.busses

\* The file creates the score with all its objects (the comment of
\* dump_objects, algoscore.nas:369), whatever was done to get it: run, it
\* raises no error, and the score it makes is the one saved but for the
\* numbers of the objects.
SaveRestores ==
    LET Same(run) == Restores(run, run.env, score)
    IN  Same(Replay(Dump(score)))

\* Whenever the update button is pressed, everything is up to date after it:
\* each object is generated after all it takes data from.
UpdateButtonSuffices == UpdateAll(score, ScoreTree(score), TRUE).stale = {}

==============================================================================
