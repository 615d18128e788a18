------------------------------- MODULE MCLoader ------------------------------
(***************************************************************************)
(* ELF files: up to three headers, the segments in ascending order as the  *)
(* ELF format requires, with and without gaps; and a malformed one.        *)
(***************************************************************************)
EXTENDS Loader

NoByte == ByteOf(<<"zero", 0>>, 0)

(* What a header adds after the segment before it. *)
Shapes ==
  [gap : {0, 2}, filesz : {0, 2}, bss : {0, 1}, write : BOOLEAN, load : {TRUE}]
    \cup [gap : {0}, filesz : {0}, bss : {0}, write : {TRUE}, load : {FALSE}]

EndOf(shapes, n) ==
  LET size[k \in 0 .. n] == IF k = 0 THEN 0
        ELSE size[k - 1] + shapes[k].gap + shapes[k].filesz + shapes[k].bss
  IN  size[n]

HeadersOf(shapes) ==
  [k \in 1 .. Len(shapes) |->
     [load |-> shapes[k].load, vaddr |-> EndOf(shapes, k - 1) + shapes[k].gap,
      filesz |-> shapes[k].filesz, memsz |-> shapes[k].filesz + shapes[k].bss,
      write |-> shapes[k].write]]

Malformed == <<[load |-> TRUE, vaddr |-> 0, filesz |-> 3, memsz |-> 2, write |-> FALSE]>>

FilesUpTo(n) == {HeadersOf(s) : s \in UNION {[1 .. k -> Shapes] : k \in 0 .. n}}

FilesAndNames ==
  [headers : FilesUpTo(3), name_length : {5}]
    \cup [headers : FilesUpTo(1) \cup {Malformed}, name_length : 1 .. 17]
=============================================================================
