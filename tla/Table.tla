-------------------------------- MODULE Table --------------------------------
(***************************************************************************)
(* The table of the last page of cleaning, bootstrap-table.js: rows are     *)
(* searched, sorted, divided into pages and selected, columns hidden, and   *)
(* the page may load, append and remove rows.  With pages from the server,  *)
(* which the code has too, a request goes out for each change and answers  *)
(* come back in any order.                                                 *)
(*                                                                         *)
(* `all' is options.data and `data' what is left of it by a search; unless  *)
(* there is one both are the same array, `same'.  A table with a height has *)
(* a header that does not scroll: a copy, made anew with the rows and put   *)
(* into the document a moment later.  Merged cells and styles are left out. *)
(***************************************************************************)
EXTENDS Integers, Sequences, SequencesExt, FiniteSets, TLC

CONSTANTS Sides,    \* sidePagination: "client", "server"
          Loads,    \* what may be loaded, sequences of rows
          Cell,     \* Cell[row][column]: a number
          Texts,    \* what is searched for: numbers, 0 for nothing
          PageList, \* page sizes
          Visibles, \* the columns that may be visible at first
          MinColumns, \* minimumCountColumns
          Heights,  \* whether options.height is given, a set of BOOLEANs
          MaxOps    \* bound on what the user and the page do, and on the table shown or hidden

Columns == DOMAIN Cell[1]
NoSort == 0

VARIABLES
  side,
  t,        \* the BootstrapTable object
  input,    \* what is in the search box
  timer,    \* whether a search waits for the typing to end
  requests, \* requests under way, the oldest first
  ops,
  rows,     \* for the properties: the rows loaded, appended and not removed,
  odd       \* and what has happened that the table does not get over

vars == <<side, t, input, timer, requests, ops, rows, odd>>

Smaller(a, b) == IF a < b THEN a ELSE b

-----------------------------------------------------------------------------
Sorted(s, name, order) ==
  IF name = NoSort THEN s
  ELSE SortSeq(s, LAMBDA a, b : IF order = "asc" THEN Cell[a][name] < Cell[b][name]
                                ELSE Cell[a][name] > Cell[b][name])

(* initSort: the array is sorted in its place.                             *)
initSort(x) ==
  LET sorted == Sorted(x.data, IF x.sortName \in x.visible THEN x.sortName ELSE NoSort, x.sortOrder)
  IN  [x EXCEPT !.data = sorted, !.all = IF x.same THEN sorted ELSE @]

initData(x, new) == initSort([x EXCEPT !.data = new, !.all = new, !.same = TRUE])

(* A row is found by what is seen of it.                                   *)
Found(x, row) == \E c \in x.visible : Cell[row][c] = x.searchText

(* Mutation: the rows that are found replace the others.                   *)
initSearchMut(x) ==
  IF x.searchText = 0 THEN [x EXCEPT !.data = x.all, !.same = TRUE]
  ELSE LET found == SelectSeq(x.all, LAMBDA row : Found(x, row))
       IN  [x EXCEPT !.data = found, !.all = found, !.same = FALSE]

initSearch(x) ==
  IF x.searchText = 0 THEN [x EXCEPT !.data = x.all, !.same = TRUE]
  ELSE [x EXCEPT !.data = SelectSeq(x.all, LAMBDA row : Found(x, row)), !.same = FALSE]

getData(x) == IF x.searchText # 0 THEN x.data ELSE x.all

(* initPagination: a page beyond the last becomes the last.                *)
initPagination(x) ==
  LET total == IF side = "client" THEN Len(getData(x)) ELSE x.totalRows
      pages == IF total = 0 THEN 0 ELSE (total - 1) \div x.pageSize + 1
      page == IF pages > 0 /\ x.pageNumber > pages THEN pages ELSE x.pageNumber
  IN  [x EXCEPT !.totalRows = total, !.totalPages = pages, !.pageNumber = page,
                !.pageFrom = (page - 1) * x.pageSize + 1,
                !.pageTo = Smaller(page * x.pageSize, total),
                !.disabledPre = page <= 1, !.disabledNext = page >= pages]

(* Mutation: the copy is made of the header that was.                       *)
resetHeaderMut(x) ==
  IF x.head.hidden THEN [x EXCEPT !.head.retry = TRUE]
  ELSE [x EXCEPT !.head.put = FALSE, !.head.waiting = @ + 1]

(* resetHeader: of a hidden table it is tried again 100 ms later.           *)
resetHeader(x) ==
  IF x.head.hidden THEN [x EXCEPT !.head.retry = TRUE]
  ELSE [x EXCEPT !.head.copy = [columns |-> x.visible, all |-> x.selectAll],
                 !.head.put = FALSE, !.head.waiting = @ + 1]

resetView(x) ==
  IF x.head.card THEN [x EXCEPT !.head.raised = FALSE]
  ELSE IF x.head.tall THEN resetHeader(x) ELSE x

(* initBody throws at a row before the first.                              *)
Throws(x) == side = "client" /\ x.pageFrom < 1 /\ x.pageFrom <= x.pageTo

(* initBody: the rows of the page and their boxes, which cards do not have,  *)
(* are made anew.                                                          *)
initBody(x) ==
  IF side = "server" THEN resetView(x)
  ELSE IF Throws(x) THEN x
  ELSE LET body == SubSeq(getData(x), x.pageFrom, x.pageTo)
           checked == {p \in 1 .. Len(body) : body[p] \in x.checked}
       IN  resetView([x EXCEPT !.body = body, !.first = x.pageFrom,
                               !.boxes = IF x.head.card THEN {} ELSE checked,
                               !.selectAll = ~ x.head.card /\ body # <<>>
                                               /\ checked = 1 .. Len(body)])

Redraw(x) == initBody(initPagination(initSearch(x)))

(* resetRows: nothing is selected any more, of the rows that were found.   *)
resetRows(x) ==
  [x EXCEPT !.checked = @ \ ToSet(x.data),
            !.boxes = IF x.data = <<>> THEN @ ELSE {},
            !.selectAll = @ /\ x.data = <<>>]

-----------------------------------------------------------------------------
Params(x) == [page |-> x.pageNumber, size |-> x.pageSize, search |-> x.searchText,
              sort |-> <<x.sortName, x.sortOrder>>]

(* initToolbar: a box for every column, all of them disabled if there are    *)
(* no more columns, visible or not, than must be left.                     *)
initToolbar(visible) ==
  [checked |-> visible, told |-> FALSE,
   disabled |-> IF Cardinality(Columns) <= MinColumns THEN Columns ELSE {}]

Empty(visible, tall, hidden) ==
  [all |-> <<>>, data |-> <<>>, same |-> TRUE, visible |-> visible,
   tools |-> initToolbar(visible),
   head |-> [tall |-> tall, hidden |-> hidden, card |-> FALSE,
             copy |-> [columns |-> {}, all |-> FALSE], \* $header_
             put |-> FALSE,     \* whether that is the copy in the document
             waiting |-> 0,     \* timeouts that put it there
             retry |-> FALSE,   \* whether resetHeader is tried again
             raised |-> FALSE], \* whether the header is behind the copy
   searchText |-> 0, sortName |-> NoSort, sortOrder |-> "asc",
   pageNumber |-> 1, pageSize |-> CHOOSE n \in PageList : \A m \in PageList : n <= m,
   totalRows |-> 0, totalPages |-> 0, pageFrom |-> 1, pageTo |-> 0,
   disabledPre |-> TRUE, disabledNext |-> TRUE,
   body |-> <<>>, first |-> 1, boxes |-> {}, checked |-> {}, selectAll |-> FALSE,
   shown |-> [page |-> 0]] \* with pages from the server: what the body answers

Init ==
  /\ side \in Sides
  /\ \E load \in Loads, visible \in Visibles, tall \in Heights, hidden \in BOOLEAN :
       /\ tall \/ ~ hidden
       /\ t = Redraw(initData(Empty(visible, tall, hidden), load))
       /\ rows = ToSet(load)
  /\ requests = IF side = "server" THEN <<Params(t)>> ELSE <<>>
  /\ input = 0 /\ timer = FALSE /\ ops = 0 /\ odd = {}

Op == ops < MaxOps /\ ops' = ops + 1 /\ UNCHANGED side

(* initServer.                                                             *)
Asks(x) == requests' = IF side = "server" THEN Append(requests, Params(x)) ELSE requests

updatePagination(x) ==
  LET turned == initPagination(resetRows(x))
  IN  IF side = "server" THEN turned ELSE initBody(turned)

(* Mutation: the request goes out before the page is made to fit.          *)
AskedMut(x) == x

Asked(x) == updatePagination(x)

Shows(x) == t' = updatePagination(x) /\ Asks(Asked(x))

-----------------------------------------------------------------------------
(* The buttons for pages.  A disabled one is ignored by updatePagination,   *)
(* when the number of the page has been changed.                           *)
Turn(number, disabled) ==
  /\ Op
  /\ IF disabled
     THEN t' = [t EXCEPT !.pageNumber = number] /\ odd' = odd \cup {"disabled"} /\ UNCHANGED requests
     ELSE Shows([t EXCEPT !.pageNumber = number]) /\ UNCHANGED odd
  /\ UNCHANGED <<input, timer, rows>>

onPageFirst == Turn(1, t.disabledPre)
onPagePre == Turn(t.pageNumber - 1, t.disabledPre)
onPageNext == Turn(t.pageNumber + 1, t.disabledNext)
onPageLast == Turn(t.totalPages, t.disabledNext)
onPageNumber(n) == n # t.pageNumber /\ Turn(n, FALSE)

onPageListChange(size) ==
  /\ Op /\ size # t.pageSize
  /\ Shows([t EXCEPT !.pageSize = size])
  /\ UNCHANGED <<input, timer, rows, odd>>

(* A key in the search box; the search waits for 500 ms without another.   *)
KeyUp(text) ==
  /\ Op /\ text # input
  /\ input' = text /\ timer' = TRUE
  /\ UNCHANGED <<t, requests, rows, odd>>

onSearch ==
  /\ timer /\ timer' = FALSE
  /\ IF input = t.searchText THEN UNCHANGED <<t, requests>>
     ELSE LET x == [t EXCEPT !.searchText = input, !.pageNumber = 1]
          IN  Shows(IF side = "server" THEN x ELSE initSearch(x))
  /\ UNCHANGED <<side, input, ops, rows, odd>>

(* The order of a column that was not sorted by is kept with its header.   *)
onSort(c) ==
  /\ Op /\ c \in t.visible
  /\ \E order \in IF c # t.sortName THEN {"asc", "desc"}
                  ELSE {IF t.sortOrder = "asc" THEN "desc" ELSE "asc"} :
       LET x == [t EXCEPT !.sortName = c, !.sortOrder = order]
       IN  t' = (IF side = "server" THEN x ELSE initBody(initSort(x))) /\ Asks(x)
  /\ UNCHANGED <<input, timer, rows, odd>>

(* Mutation: what is hidden is still searched.                             *)
RedrawnMut(x) == initBody(initPagination(x))

Redrawn(x) == IF side = "server" THEN initBody(initPagination(x)) ELSE Redraw(x)

(* Mutation: boxes stay disabled when there are columns enough again.       *)
toggleColumnMut(x, c, checked) ==
  LET boxes == IF checked THEN x.tools.checked \cup {c} ELSE x.tools.checked \ {c}
  IN  [Redrawn([x EXCEPT !.visible = boxes]) EXCEPT
         !.tools = [checked |-> boxes, told |-> TRUE,
                    disabled |-> @.disabled \cup
                      (IF Cardinality(boxes) <= MinColumns THEN boxes ELSE {})]]

(* toggleColumn: the last boxes that are checked are disabled.              *)
toggleColumn(x, c, checked) ==
  LET boxes == IF checked THEN x.tools.checked \cup {c} ELSE x.tools.checked \ {c}
      drawn == Redrawn([x EXCEPT !.visible = IF checked THEN @ \cup {c} ELSE @ \ {c}])
  IN  IF Throws(drawn) THEN drawn
      ELSE [drawn EXCEPT !.tools =
             [checked |-> boxes, told |-> TRUE,
              disabled |-> IF Cardinality(boxes) <= MinColumns THEN boxes ELSE {}]]

(* A click on the box of a column.                                         *)
Switch(c) ==
  /\ Op /\ c \notin t.tools.disabled
  /\ LET checked == c \notin t.tools.checked
     IN  t' = toggleColumn([t EXCEPT !.tools.checked =
                              IF checked THEN @ \cup {c} ELSE @ \ {c}], c, checked)
  /\ UNCHANGED <<input, timer, requests, rows, odd>>

(* The page asks for a column, or for it to be hidden, enabled or not.      *)
showColumn(c) ==
  /\ Op
  /\ t' = toggleColumn(t, c, TRUE)
  /\ UNCHANGED <<input, timer, requests, rows, odd>>

hideColumn(c) ==
  /\ Op
  /\ t' = toggleColumn(t, c, FALSE)
  /\ UNCHANGED <<input, timer, requests, rows, odd>>

(* The button that shows rows as cards, or no longer does.                  *)
Toggle ==
  /\ Op
  /\ t' = initBody([t EXCEPT !.head.card = ~ @])
  /\ odd' = IF t.head.waiting > 0 \/ t.head.retry THEN odd \cup {"toggled"} ELSE odd
  /\ UNCHANGED <<input, timer, requests, rows>>

-----------------------------------------------------------------------------
(* resetHeader: the copy gets into the document, with the events and data of *)
(* the header.                                                             *)
FixHeader ==
  /\ t.head.waiting > 0
  /\ t' = [t EXCEPT !.head.waiting = @ - 1, !.head.put = TRUE, !.head.raised = TRUE]
  /\ UNCHANGED <<side, input, timer, requests, ops, rows, odd>>

Retry ==
  /\ t.head.retry
  /\ t' = resetHeader([t EXCEPT !.head.retry = FALSE])
  /\ UNCHANGED <<side, input, timer, requests, ops, rows, odd>>

(* The part of the page with the table is shown, or hidden.                 *)
ShowTable ==
  /\ Op /\ t.head.tall
  /\ t' = [t EXCEPT !.head.hidden = ~ @]
  /\ UNCHANGED <<input, timer, requests, rows, odd>>

-----------------------------------------------------------------------------
(* load, append and remove by the page, with pages of its own.             *)

load(new) ==
  /\ Op /\ side = "client"
  /\ t' = Redraw(initData([t EXCEPT !.checked = {}], new))
  /\ rows' = ToSet(new)
  /\ UNCHANGED <<input, timer, requests, odd>>

(* What is appended to is what is left by the search.                      *)
append(row) ==
  /\ Op /\ side = "client" /\ row \notin rows
  /\ t' = Redraw(initData(t, Append(t.data, row)))
  /\ rows' = rows \cup {row}
  /\ odd' = IF t.searchText # 0 THEN odd \cup {"append"} ELSE odd
  /\ UNCHANGED <<input, timer, requests>>

remove(c, value) ==
  LET kept == SelectSeq(t.all, LAMBDA row : Cell[row][c] # value)
      x == [t EXCEPT !.all = kept, !.data = IF t.same THEN kept ELSE @]
  IN  /\ Op /\ side = "client" /\ kept # t.all
      /\ t' = Redraw(x)
      /\ rows' = {row \in rows : Cell[row][c] # value}
      /\ UNCHANGED <<input, timer, requests, odd>>

-----------------------------------------------------------------------------
(* Mutation: the box of a row is not set with those of the page.           *)
AllBoxesMut(x, checked) == x.boxes

AllBoxes(x, checked) == IF checked THEN 1 .. Len(x.body) ELSE {}

(* The row of a box is found by its index in the data.                     *)
RowAt(x, p) == x.data[x.first + p - 1]

Check(p) ==
  LET boxes == IF p \in t.boxes THEN t.boxes \ {p} ELSE t.boxes \cup {p}
  IN  /\ Op /\ p <= Len(t.body) /\ odd = {} /\ ~ t.head.card
      /\ t' = [t EXCEPT !.boxes = boxes, !.head.copy.all = boxes = 1 .. Len(t.body),
                        !.checked = IF p \in boxes THEN @ \cup {RowAt(t, p)}
                                    ELSE @ \ {RowAt(t, p)},
                        !.selectAll = boxes = 1 .. Len(t.body)]
      /\ UNCHANGED <<input, timer, requests, rows, odd>>

CheckAll(checked) ==
  LET page == {RowAt(t, p) : p \in 1 .. Len(t.body)}
  IN  /\ Op /\ odd = {} /\ ~ t.head.card /\ side = "client"
      /\ t' = [t EXCEPT !.selectAll = checked, !.head.copy.all = checked, !.boxes = AllBoxes(t, checked),
                        !.checked = IF checked THEN @ \cup page ELSE @ \ page]
      /\ UNCHANGED <<input, timer, requests, rows, odd>>

-----------------------------------------------------------------------------
refresh == Op /\ side = "server" /\ Asks(t) /\ UNCHANGED <<t, input, timer, rows, odd>>

(* Rows that the server has for a search, all that are found in a column.  *)
Total(search) ==
  Cardinality({row \in DOMAIN Cell : search = 0 \/ \E c \in Columns : Cell[row][c] = search})

(* An answer, or the failure of a request.                                 *)
Answer(i) ==
  /\ i <= Len(requests)
  /\ requests' = RemoveAt(requests, i)
  /\ \/ /\ t' = initBody(initPagination([t EXCEPT !.totalRows = Total(requests[i].search),
                                                  !.shown = requests[i]]))
        /\ odd' = odd \cup (IF i > 1 THEN {"overtaken"} ELSE {})
                      \cup (IF t'.pageNumber # t.pageNumber THEN {"fewer"} ELSE {})
     \/ UNCHANGED t /\ odd' = odd \cup {"failed"}
  /\ UNCHANGED <<side, input, timer, ops, rows>>

Next ==
  \/ onPageFirst \/ onPagePre \/ onPageNext \/ onPageLast
  \/ \E n \in 1 .. t.totalPages : onPageNumber(n)
  \/ \E size \in PageList : onPageListChange(size)
  \/ \E text \in Texts : KeyUp(text)
  \/ onSearch \/ refresh
  \/ \E c \in Columns :
       \/ onSort(c) \/ Switch(c) \/ showColumn(c) \/ hideColumn(c)
       \/ \E row \in DOMAIN Cell : remove(c, Cell[row][c])
  \/ \E new \in Loads : load(new)
  \/ \E row \in DOMAIN Cell : append(row)
  \/ \E p \in 1 .. Len(t.body) : Check(p)
  \/ CheckAll(TRUE) \/ CheckAll(FALSE)
  \/ Toggle \/ FixHeader \/ Retry \/ ShowTable
  \/ \E i \in 1 .. Len(requests) : Answer(i)

Spec == Init /\ [][Next]_vars

-----------------------------------------------------------------------------
(* The body is a full page of the rows in which the text searched for is to *)
(* be seen, whatever is typed, sorted, hidden, loaded and removed in       *)
(* whatever order.  After a disabled button was clicked it may not be.     *)
PageOfFound ==
  side = "client" /\ "disabled" \notin odd =>
    LET found == {row \in ToSet(t.all) : t.searchText = 0 \/ Found(t, row)}
    IN  /\ ToSet(t.body) \subseteq found /\ IsInjective(t.body)
        /\ Len(t.body) = Cardinality(found \cap ToSet(t.body))
        /\ found # {} => Len(t.body) =
             Smaller(t.pageSize, Cardinality(found) - (t.pageNumber - 1) * t.pageSize)

(* No row is lost, though arrays are sorted and spliced in place and shared *)
(* by the search; but for an append in the middle of one.                  *)
NothingLost == side = "client" /\ "append" \notin odd => ToSet(t.all) = rows

(* A box that is seen is set if, and only if, its row is selected, and the  *)
(* box in the header if all are; and a click is for the row it is on.       *)
BoxesAgree ==
  side = "client" /\ "disabled" \notin odd /\ ~ t.head.card =>
    /\ \A p \in 1 .. Len(t.body) : RowAt(t, p) = t.body[p]
    /\ \A p \in 1 .. Len(t.body) : (p \in t.boxes) <=> (t.body[p] \in t.checked)
    /\ t.body # <<>> => (t.selectAll <=> t.boxes = 1 .. Len(t.body))

(* The boxes of the columns tell which are visible; once one was shown or    *)
(* hidden, no click on a box leaves fewer than must be left, and none of   *)
(* them is disabled where there are more.                                  *)
ColumnsTold ==
  "disabled" \notin odd =>
    /\ t.tools.checked = t.visible
    /\ t.tools.told =>
         IF Cardinality(t.visible) <= MinColumns THEN t.tools.disabled = t.visible
         ELSE t.tools.disabled = {}

(* When its timers have rung, the header that does not scroll is a copy of   *)
(* the header as it is, with the same box checked, of a table that may have *)
(* been hidden meanwhile; cards are not covered by it, if no timer was set   *)
(* when they were asked for.                                               *)
HeaderCopied ==
  t.head.waiting = 0 /\ ~ t.head.retry /\ t.head.tall /\ {"toggled", "disabled"} \cap odd = {} =>
    /\ t.head.raised = ~ t.head.card
    /\ ~ t.head.card => t.head.put /\ t.head.copy = [columns |-> t.visible, all |-> t.selectAll]

(* When all requests are answered, in their order and with no fewer pages   *)
(* than there seemed to be, the table shows what the user asked for last.   *)
AskedShown ==
  side = "server" /\ requests = <<>> /\ odd = {} => t.shown = Params(t)
=============================================================================
