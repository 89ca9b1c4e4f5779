---------------------------- MODULE Navigation ----------------------------
(***************************************************************************)
(* Where the reader is: the tab's session history and address bar, the     *)
(* page, tool, query and columns on the screen (App.vue), what is          *)
(* remembered per tool for as long as the document lives (queriesByTool)   *)
(* and what is remembered in the browser (vlui.columns), which other tabs  *)
(* of this application write as well.                                      *)
(*                                                                         *)
(* A tab is a record, and the functions of App.vue that call one another   *)
(* are operators from a tab to a tab.  An address is a path, the name of a *)
(* tool or of a page, and the q of its fragment; the window and the row    *)
(* cap travel with q.  Whatever run() asks the server for is in "ran".     *)
(***************************************************************************)
EXTENDS Integers, Sequences, FiniteSets, SequencesExt

CONSTANTS
    Tools,          \* the ids /api/config lists, in order
    HasFilter,      \* the tools with a query of their own
    Names,          \* what a field may be called, with no comma in it
    Fields,         \* for each tool its configured fields; none is <<>>
    Stranger,       \* a path that names no tool of this deployment
    Typed,          \* the queries a reader may type
    Links,          \* the addresses a reader may open, as <<path, q>>
    Toggled,        \* the columns a reader may toggle
    OtherMaps,      \* the columns of all tools, as another tab may write them
    MaxEntries,     \* the entries of the session history (a bound of the model)
    MaxLoads        \* the documents loaded (a bound of the model)

VARIABLES
    tab,        \* see TabType
    loads,      \* documents loaded so far, by arriving somewhere
    hasty,      \* Back, Forward or a fragment was acted on before the config came
    left,       \* what the box of each tool held when its reader left it
    chosen      \* the columns made for each tool last, where not the configured ones

vars == <<tab, loads, hasty, left, chosen>>

NoTool  == ""
AppPages == {"icons", "status"}
Offered == ToSet(Tools)
ToolIds == Offered \cup {NoTool, Stranger}
Paths   == ToolIds \cup AppPages

Queries == Typed \cup {"", "*"}
Unset   == "unset"
NoRun   == [tool |-> NoTool, query |-> Unset]

\* Nothing is remembered, which an empty list is not: no column has an empty
\* name (storedColumns, validateTools).
None    == << "" >>
Lists   == Seq(Names)

\* An id is unique, not empty and none of the paths of the application
\* (validateTools, reservedIDs).
ASSUME ToolsAssumption ==
    /\ Tools \in Seq(STRING) /\ IsInjective(Tools)
    /\ HasFilter \subseteq Offered /\ Stranger \in STRING
    /\ Offered \cap ({NoTool, Stranger} \cup AppPages) = {}
    /\ Stranger \notin {NoTool} \cup AppPages
ASSUME FieldsAssumption ==
    /\ "" \notin Names /\ {"_time", "_msg"} \cup Toggled \subseteq Names
    /\ Fields \in [Offered -> Lists]
ASSUME ReaderAssumption ==
    /\ Unset \notin Typed
    /\ OtherMaps \subseteq [ToolIds -> Lists \cup {None}]
    /\ Links # {} /\ Links \subseteq Paths \X Queries
ASSUME BoundsAssumption == MaxEntries \in Nat \ {0} /\ MaxLoads \in Nat \ {0}

Entry(path, q, doc) == [path |-> path, q |-> q, doc |-> doc]
Here(s) == s.entries[s.pos]
-----------------------------------------------------------------------------
(* Tools and columns.                                                      *)

\* toolById: an id that is not offered stands for the first tool, and before
\* the config has come there is none.
ToolById(s, id) ==
    IF s.boot # "ready" \/ Tools = <<>> THEN NoTool
    ELSE IF id \in Offered THEN id ELSE Tools[1]

DefaultQueryFor(s, id) == IF ToolById(s, id) \in HasFilter THEN "" ELSE "*"

DefaultColumns == << "_time", "_msg" >>
DefaultColumnsFor(s, id) ==
    LET t == ToolById(s, id)
    IN IF t = NoTool THEN DefaultColumns
       ELSE IF Fields[t] = <<>> THEN DefaultColumns ELSE Fields[t]

\* filter: cols without the column c, a function of how far they were read.
Without(cols, c) ==
    LET kept[n \in 0..Len(cols)] ==
            IF n = 0 THEN <<>>
            ELSE IF cols[n] = c THEN kept[n - 1] ELSE Append(kept[n - 1], cols[n])
    IN kept[Len(cols)]

MsgLast(cols) == "_msg" \in ToSet(cols) => Last(cols) = "_msg"
WithMsgLast(cols) == IF MsgLast(cols) THEN cols ELSE Append(Without(cols, "_msg"), "_msg")

ColumnsFor(s, id) ==
    IF s.stored[id] \notin {None, <<>>} THEN WithMsgLast(s.stored[id])
    ELSE DefaultColumnsFor(s, id)

\* The columns of all tools are written, over whatever another tab wrote.
PersistColumns(s) == [s EXCEPT !.disk = s.stored, !.foreign = FALSE]

RememberColumns(s) ==
    PersistColumns([s EXCEPT !.stored[s.tool] =
        IF s.columns = DefaultColumnsFor(s, s.tool) THEN None ELSE s.columns])

\* toggleColumn's columns.
ToggledColumns(cols, field) ==
    LET msg == SelectInSeq(cols, LAMBDA c : c = "_msg")
    IN IF field \in ToSet(cols)
       THEN IF field = "_time" THEN cols ELSE Without(cols, field)
       ELSE IF msg > 0 THEN InsertAt(cols, msg, field) ELSE Append(cols, field)
-----------------------------------------------------------------------------
(* The address, and what is read from it and written to it.                *)

ToolFromPath(s) == Here(s).path
PageFromPath(s) == IF Here(s).path \in AppPages THEN Here(s).path ELSE ""

WriteURL(s) == [s EXCEPT !.entries[s.pos] = Entry(s.tool, s.query, @.doc)]

\* history.pushState, and the browser when an address is opened.
Push(s, path, q, doc) ==
    [s EXCEPT !.entries = Append(SubSeq(@, 1, s.pos), Entry(path, q, doc)),
              !.pos = @ + 1]

\* run, as far as the address and the request go.
Run(s) == [WriteURL(s) EXCEPT !.ran = [tool |-> s.tool, query |-> s.query]]

ReadURL(s) ==
    LET wanted == ToolFromPath(s)
        known  == s.boot = "ready" /\ wanted \in Offered
        t      == IF known THEN wanted ELSE s.tool
        q      == Here(s).q
        held   == IF q # "" THEN q ELSE IF known THEN DefaultQueryFor(s, t) ELSE s.query
    IN [s EXCEPT !.tool = t, !.query = held,
                 !.memory[t] = IF q # "" /\ t # NoTool THEN q ELSE @,
                 !.columns = ColumnsFor(s, t)]

StartWorkspace(s) == Run(ReadURL([s EXCEPT !.started = TRUE]))

\* Bug: the box is remembered under the tool being opened.
SwitchToolLate(s, id) ==
    LET r == RememberColumns([s EXCEPT !.memory[id] = s.query])
    IN Run([r EXCEPT !.tool = id,
                     !.query = IF r.memory[id] # Unset THEN r.memory[id] ELSE DefaultQueryFor(s, id),
                     !.columns = ColumnsFor(r, id)])

\* Bug: the columns are remembered under the tool being opened.
SwitchToolColumnsLate(s, id) ==
    LET r == [s EXCEPT !.memory[s.tool] = IF s.tool # NoTool THEN s.query ELSE @]
        m == RememberColumns([r EXCEPT !.tool = id])
    IN Run([m EXCEPT !.query = IF r.memory[id] # Unset THEN r.memory[id] ELSE DefaultQueryFor(s, id),
                     !.columns = ColumnsFor(m, id)])

\* The part of selectTool that changes tools.
SwitchTool(s, id) ==
    LET r == RememberColumns([s EXCEPT !.memory[s.tool] = IF s.tool # NoTool THEN s.query ELSE @])
    IN Run([r EXCEPT !.tool = id,
                     !.query = IF r.memory[id] # Unset THEN r.memory[id] ELSE DefaultQueryFor(s, id),
                     !.columns = ColumnsFor(r, id)])

\* Bug: coming back from a page runs the box again.
SelectToolRuns(s, id) ==
    LET opened == Push([s EXCEPT !.page = ""], id, "", Here(s).doc)
    IN IF s.page # ""
       THEN IF ~s.started THEN StartWorkspace(opened) ELSE SwitchTool(opened, id)
       ELSE IF id = s.tool THEN s ELSE SwitchTool(s, id)

SelectTool(s, id) ==
    LET opened == Push([s EXCEPT !.page = ""], id, "", Here(s).doc)
    IN IF s.page # ""
       THEN IF ~s.started THEN StartWorkspace(opened)
            ELSE IF id = s.tool THEN WriteURL(opened) ELSE SwitchTool(opened, id)
       ELSE IF id = s.tool THEN s ELSE SwitchTool(s, id)

\* Bug: Back and Forward change the page and leave the tool.
OnPopStatePageOnly(s) ==
    LET t == [s EXCEPT !.page = PageFromPath(s)]
    IN IF t.page = "" /\ ~t.started THEN StartWorkspace(t) ELSE t

OnPopState(s) ==
    LET t == [s EXCEPT !.page = PageFromPath(s)]
        wanted == ToolFromPath(s)
    IN IF t.page # "" THEN t
       ELSE IF ~t.started THEN StartWorkspace(t)
       ELSE IF wanted \notin {NoTool, t.tool} THEN SelectTool(t, wanted) ELSE t

\* A document begins: everything but the history and the browser's storage.
Fresh(s) == [s EXCEPT !.boot = "loading", !.page = PageFromPath(s), !.tool = NoTool, !.query = "*",
                      !.memory = [t \in ToolIds |-> Unset], !.started = FALSE,
                      !.columns = DefaultColumns, !.ran = NoRun,
                      !.stored = s.disk, !.foreign = FALSE]
-----------------------------------------------------------------------------
Init ==
    /\ \E link \in Links :
        tab = Fresh([boot |-> "loading", page |-> "", tool |-> NoTool, query |-> "*",
                     memory |-> [t \in ToolIds |-> Unset], started |-> FALSE,
                     columns |-> DefaultColumns, ran |-> NoRun,
                     stored |-> [t \in ToolIds |-> None],
                     disk |-> [t \in ToolIds |-> None], foreign |-> FALSE,
                     entries |-> << Entry(link[1], link[2], 1) >>, pos |-> 1])
    /\ loads = 1 /\ hasty = FALSE
    /\ left = [t \in ToolIds |-> Unset]
    /\ chosen = [t \in ToolIds |-> None]

\* A step within a document, after the config has come.  The box of a tool that
\* is left is noted.
Show(s) ==
    /\ tab' = s
    /\ left' = IF s.tool # tab.tool THEN [left EXCEPT ![tab.tool] = tab.query] ELSE left

\* A document begins at the entry s stands at, with the columns that were
\* written last.
LoadDocument(s) ==
    /\ tab' = Fresh(s)
    /\ left' = [t \in ToolIds |-> Unset]
    /\ chosen' = IF s.foreign
                 THEN [t \in ToolIds |-> IF s.disk[t] = None THEN None ELSE WithMsgLast(s.disk[t])]
                 ELSE chosen
    /\ UNCHANGED hasty

\* onMounted goes on with the config.
ConfigComes ==
    /\ tab.boot = "loading"
    /\ LET came  == [tab EXCEPT !.boot = "ready"]
           first == ToolById(came, NoTool)
           s == [came EXCEPT !.tool = first, !.query = DefaultQueryFor(came, first),
                             !.columns = ColumnsFor(came, first)]
       IN tab' = IF s.page # "" THEN s ELSE StartWorkspace(s)
    /\ UNCHANGED <<loads, hasty, left, chosen>>

\* The gate or the banner is up.
ConfigFails ==
    /\ tab.boot = "loading"
    /\ tab' = [tab EXCEPT !.boot = "failed"]
    /\ UNCHANGED <<loads, hasty, left, chosen>>

\* The logs are on the screen, with the box, the table and the field panel.
Logs == tab.boot = "ready" /\ tab.page = ""

TypeQuery(q) ==
    /\ Logs /\ q # tab.query
    /\ Show([tab EXCEPT !.query = q])
    /\ UNCHANGED <<loads, hasty, chosen>>

RunIt ==
    /\ Logs
    /\ Show(Run(tab))
    /\ UNCHANGED <<loads, hasty, chosen>>

\* addFilter: the box is changed and run at once.
AddFilter(q) ==
    /\ Logs /\ q # tab.query
    /\ Show(Run([tab EXCEPT !.query = q]))
    /\ UNCHANGED <<loads, hasty, chosen>>

ToggleColumn(field) ==
    /\ Logs
    /\ LET cols == ToggledColumns(tab.columns, field) IN
        /\ cols # tab.columns
        /\ Show(RememberColumns([tab EXCEPT !.columns = cols]))
        /\ chosen' = [chosen EXCEPT ![tab.tool] =
                        IF cols = DefaultColumnsFor(tab, tab.tool) THEN None ELSE cols]
    /\ UNCHANGED <<loads, hasty>>

ResetColumns ==
    /\ Logs /\ tab.stored[tab.tool] # None
    /\ Show(PersistColumns([tab EXCEPT !.stored[tab.tool] = None,
                                       !.columns = DefaultColumnsFor(tab, tab.tool)]))
    /\ chosen' = [chosen EXCEPT ![tab.tool] = None]
    /\ UNCHANGED <<loads, hasty>>

\* The rail: absent from the icons page, empty until the config has come.
Rail == tab.boot = "ready" /\ tab.page # "icons"

PickTool(id) ==
    /\ Rail /\ (tab.page # "" => tab.pos < MaxEntries)
    /\ Show(SelectTool(tab, id))
    /\ UNCHANGED <<loads, hasty, chosen>>

OpenStatus ==
    /\ Rail /\ tab.page # "status" /\ tab.pos < MaxEntries
    /\ Show([Push(tab, "status", "", Here(tab).doc) EXCEPT !.page = "status"])
    /\ UNCHANGED <<loads, hasty, chosen>>

\* popstate: the browser has moved to s's entry, of the same document.
PopState(s) ==
    /\ hasty' = (hasty \/ tab.boot # "ready")
    /\ IF tab.boot = "ready" THEN Show(OnPopState(s)) ELSE tab' = OnPopState(s) /\ UNCHANGED left
    /\ UNCHANGED <<loads, chosen>>

\* Back and Forward.  An entry of another document is loaded.
Traverse ==
    \E to \in {tab.pos - 1, tab.pos + 1} \cap DOMAIN tab.entries :
        LET s == [tab EXCEPT !.pos = to]
        IN IF Here(s).doc = Here(tab).doc THEN PopState(s)
           ELSE LoadDocument(s) /\ UNCHANGED loads

\* The reader edits the fragment in the address bar.
EditFragment(q) ==
    /\ tab.pos < MaxEntries /\ q # Here(tab).q
    /\ PopState(Push(tab, Here(tab).path, q, Here(tab).doc))

Reload == LoadDocument(tab) /\ UNCHANGED loads

\* The reader opens an address in this tab: a link, a bookmark, the icons
\* page's way back.
Arrive(path, q) ==
    /\ loads < MaxLoads /\ tab.pos < MaxEntries
    /\ loads' = loads + 1
    /\ LoadDocument(Push(tab, path, q, loads + 1))

\* Another tab remembers columns, while this one shows the logs (a bound of the
\* model) and hears nothing of it.
OtherTab(m) ==
    /\ Logs /\ m # tab.disk
    /\ tab' = [tab EXCEPT !.disk = m, !.foreign = TRUE]
    /\ UNCHANGED <<loads, hasty, left, chosen>>

Next ==
    \/ ConfigComes \/ ConfigFails
    \/ \E q \in Typed \cup {""} : TypeQuery(q)
    \/ RunIt
    \/ \E q \in Typed : AddFilter(q)
    \/ \E f \in Toggled : ToggleColumn(f)
    \/ ResetColumns
    \/ \E id \in Offered : PickTool(id)
    \/ OpenStatus
    \/ Traverse
    \/ \E q \in Typed : EditFragment(q)
    \/ Reload
    \/ \E m \in OtherMaps : OtherTab(m)
    \/ \E link \in Links : Arrive(link[1], link[2])

Spec == Init /\ [][Next]_vars
-----------------------------------------------------------------------------
EntryType == [path : Paths, q : Queries, doc : 1..MaxLoads]
TabType ==
    [boot : {"loading", "ready", "failed"}, page : AppPages \cup {""}, tool : ToolIds,
     query : Queries, memory : [ToolIds -> Queries \cup {Unset}], started : BOOLEAN,
     columns : Lists, ran : [tool : ToolIds, query : Queries \cup {Unset}],
     stored : [ToolIds -> Lists \cup {None}], disk : [ToolIds -> Lists \cup {None}],
     foreign : BOOLEAN, entries : Seq(EntryType), pos : Nat]

\* Every variable keeps its type, and the tab is at one of its entries.
TypeOK ==
    /\ tab \in TabType /\ tab.pos \in DOMAIN tab.entries /\ Len(tab.entries) <= MaxEntries
    /\ loads \in 1..MaxLoads /\ hasty \in BOOLEAN
    /\ left \in [ToolIds -> Queries \cup {Unset}] /\ chosen \in [ToolIds -> Lists \cup {None}]

\* While the logs are shown, the path in the address bar, the tool lit in the
\* rail and the tool whose rows were asked for are one and the same, whichever
\* way the reader came: the rail, an address, Back, Forward or a reload.  A tab
\* in which a popstate came before the config is excepted: see the README.
OneTool ==
    (Logs /\ ~hasty) =>
        /\ tab.started
        /\ Here(tab).path = ToolById(tab, tab.tool)
        /\ tab.ran.tool = ToolById(tab, tab.tool)

\* A tool's columns are the ones its reader made, or the configured ones,
\* across tools, pages and reloads - and while this document lives whatever
\* other tabs write; what they wrote after it, and only that, a reload takes up
\* (rememberColumns, persistColumns, columnsFor).  A table that was left without
\* a column and a tool whose configured fields have something after _msg are
\* excepted: see the README.
ColumnsKept ==
    (Logs /\ ~hasty /\ chosen[tab.tool] # <<>> /\ MsgLast(DefaultColumnsFor(tab, tab.tool))) =>
        tab.columns = IF chosen[tab.tool] = None THEN DefaultColumnsFor(tab, tab.tool)
                      ELSE chosen[tab.tool]

\* Returning to a tool finds the box as it was left, run or not, by the rail as
\* by Back, and opening it for the first time finds the tool's own default
\* (selectTool, queriesByTool).
BoxKept ==
    [][ (~hasty /\ tab.boot = "ready" /\ tab'.boot = "ready" /\ tab.started
         /\ tab'.tool # tab.tool) =>
            tab'.query = IF left[tab'.tool] # Unset THEN left[tab'.tool]
                         ELSE DefaultQueryFor(tab, tab'.tool) ]_vars

\* A look at the status page and back leaves the tool, the box, the columns and
\* the rows as they were (openStatus, onPopState, selectTool).
StatusIsADetour ==
    [][ (tab.boot = "ready" /\ tab'.boot = "ready" /\ tab.started
         /\ tab'.page # tab.page /\ tab'.tool = tab.tool) =>
            /\ tab'.query = tab.query /\ tab'.columns = tab.columns
            /\ tab'.ran = tab.ran /\ tab'.memory = tab.memory ]_vars
=============================================================================
