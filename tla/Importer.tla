------------------------------ MODULE Importer ------------------------------
(***************************************************************************)
(* The import of a table of labels (crates/importer): the headers are      *)
(* matched with the required columns, by name or by an alias, and each row *)
(* is checked cell by cell.                                                *)
(* A cell is a value of which only what the checks read is known.  The     *)
(* alias table is a constant: which texts, as they are compared after case *)
(* and punctuation are dropped, stand for a column.                        *)
(***************************************************************************)
EXTENDS Jan

CONSTANTS Columns,     \* REQUIRED_COLUMNS, in their order
          Headers,     \* texts in the first line of a file
          ExactNames,  \* for a column, the headers that are its name
          Aliases,     \* for a column, the headers that mean it
          Cells,       \* texts in the other lines, without the spaces around them
          Blank,       \* the empty one
          JanText,     \* a cell as the characters Jan reads
          Quantity,    \* a cell as u32, or NoValue
          Truth,       \* a cell as true or false, or NoValue
          NoValue      \* what cannot be parsed, and no column

Column == {Columns[i] : i \in DOMAIN Columns}

\* The columns that are not just text.
ParsedColumns == {"jan", "qty", "enabled"}

-----------------------------------------------------------------------------
(* Headers. *)

Means(header, column) == header \in ExactNames[column] \cup Aliases[column]

\* resolve_header_alias: the first column of the table that a header means.
ColumnOf(header) ==
  IF \E i \in DOMAIN Columns : Means(header, Columns[i])
  THEN Columns[CHOOSE i \in DOMAIN Columns :
                 /\ Means(header, Columns[i])
                 /\ \A j \in 1..i - 1 : ~Means(header, Columns[j])]
  ELSE NoValue

\* HeaderMatchQuality, of a header that means a column
Quality(header) == IF header \in ExactNames[ColumnOf(header)] THEN "exact" ELSE "alias"

Positions(headers, column) == {i \in DOMAIN headers : ColumnOf(headers[i]) = column}

Once(headers, column) == \E i \in DOMAIN headers : Positions(headers, column) = {i}

Unresolved(headers) == {c \in Column : Positions(headers, c) = {}}

Duplicated(headers) == {c \in Column : Positions(headers, c) # {} /\ ~Once(headers, c)}

CanValidate(headers) == Unresolved(headers) = {} /\ Duplicated(headers) = {}

\* The index map; the code only builds it if every column is there once.
IndexOf(headers) ==
  [c \in Column |-> CHOOSE i \in DOMAIN headers : ColumnOf(headers[i]) = c]

\* inspect_header_resolution
Inspected(headers) ==
  [unresolved |-> Unresolved(headers),
   duplicates |-> Duplicated(headers),
   unused     |-> {i \in DOMAIN headers :
                     \A c \in Column : ~(Once(headers, c) /\ i \in Positions(headers, c))},
   byAlias    |-> IF CanValidate(headers)
                  THEN {c \in Column : Quality(headers[IndexOf(headers)[c]]) = "alias"}
                  ELSE {},
   safe       |-> /\ CanValidate(headers)
                  /\ \A c \in Column : Quality(headers[IndexOf(headers)[c]]) = "exact"]

\* resolve_header_indexes; missing columns are reported before duplicated ones.
HeaderError(headers) ==
  IF Unresolved(headers) # {} THEN [missing |-> Unresolved(headers)]
  ELSE [duplicated |-> Duplicated(headers)]

-----------------------------------------------------------------------------
(* Rows. *)

CellOK(column, cell) ==
  CASE column = "jan"     -> Accepts(JanText[cell])
    [] column = "qty"     -> Quantity[cell] # NoValue /\ Quantity[cell] > 0
    [] column = "enabled" -> Truth[cell] # NoValue
    [] OTHER              -> cell # Blank

ValueOf(column, cell) ==
  CASE column = "jan"     -> Parse(JanText[cell]).digits
    [] column = "qty"     -> Quantity[cell]
    [] column = "enabled" -> Truth[cell]
    [] OTHER              -> cell

\* validate_row, of cells by column: all the bad cells are named, or the row is read.
Row(number, cells) ==
  LET bad == {c \in Column : ~CellOK(c, cells[c])}
  IN  IF bad # {} THEN [number |-> number, badCells |-> bad]
      ELSE [number |-> number, row |-> [c \in Column |-> ValueOf(c, cells[c])]]

\* A line that ends before the last of the columns.
TooShort(number, values) == [number |-> number, columns |-> Len(values)]

ReadRow(number, indexes, values) ==
  IF \E c \in Column : Len(values) < indexes[c] THEN TooShort(number, values)
  ELSE Row(number, [c \in Column |-> values[indexes[c]]])

\* validate_row_with_headers
ValidateRow(number, headers, values) ==
  IF CanValidate(headers) THEN ReadRow(number, IndexOf(headers), values)
  ELSE HeaderError(headers)

\* validate_rows_with_headers
ValidateRows(headers, rows, first) ==
  IF CanValidate(headers)
  THEN [k \in DOMAIN rows |-> ReadRow(first + k - 1, IndexOf(headers), rows[k])]
  ELSE HeaderError(headers)
=============================================================================
