----------------------------- MODULE ShortNames -----------------------------
(***************************************************************************)
(* The names of a FAT volume as its entries hold them and as paths and     *)
(* listings write them: strtofat and fattostr of ksrc/fs/fat.c.  An entry  *)
(* holds Base characters and then Ext, both filled up with blanks.         *)
(*                                                                         *)
(* A program lists a directory and looks up a name it was given, as it is  *)
(* or without the dot in it.                                               *)
(***************************************************************************)
EXTENDS Naturals, Sequences

CONSTANTS Base, Ext,   \* 8 and 3
          Letters, Others   \* letters, and digits and signs, which have no case

VARIABLES entry,   \* the 11 characters of an entry
          shown,   \* the name readdir gives to the callback
          src, dest,       \* of strtofat: the name looked for, and what it makes of it
          src_i, dest_j,   \* how many characters are taken, and where the next goes
          names_pc

namesVars == <<entry, shown, src, dest, src_i, dest_j, names_pc>>

\* A character and its case.
Blank     == <<" ", "none">>
DotLetter == <<".", "none">>
Size      == Base + Ext

Capital(c) == IF c[2] = "small" THEN <<c[1], "big">> ELSE c
Small(c)   == IF c[2] = "big" THEN <<c[1], "small">> ELSE c

\* What formatting tools write: a base that begins with no blank, no blank inside
\* the extension.
InNames == (Letters \X {"big"}) \cup (Others \X {"none"})
Entries ==
  {e \in [1 .. Size -> InNames \cup {Blank}] :
     /\ e[1] # Blank
     /\ \A k \in Base + 1 .. Size - 1 : e[k] = Blank => e[k + 1] = Blank}

ASSUME NamesAssumption ==
  Base \in Nat \ {0} /\ Ext \in Nat \ {0} /\ " " \notin Others /\ "." \notin Others

-----------------------------------------------------------------------------
\* The blanks behind the last character of the base are left out, those in front of
\* it are kept.
BaseLength(e) ==
  CHOOSE k \in 1 .. Base : e[k] # Blank /\ \A l \in k + 1 .. Base : e[l] = Blank

\* An extension ends with its first blank.
ExtLength(e) ==
  CHOOSE k \in 0 .. Ext :
    /\ \A l \in Base + 1 .. Base + k : e[l] # Blank
    /\ k = Ext \/ e[Base + k + 1] = Blank

BaseOf(e) == [k \in 1 .. BaseLength(e) |-> Small(e[k])]
ExtOf(e)  == [k \in 1 .. ExtLength(e) |-> Small(e[Base + k])]

fattostr(e) == IF ExtLength(e) = 0 THEN BaseOf(e) ELSE BaseOf(e) \o <<DotLetter>> \o ExtOf(e)

WithoutDot(e) == BaseOf(e) \o ExtOf(e)

-----------------------------------------------------------------------------
ShortNamesInit ==
  /\ entry \in Entries /\ shown = << >> /\ src = << >> /\ dest = << >>
  /\ src_i = 0 /\ dest_j = 0 /\ names_pc = "list"

List ==
  /\ names_pc = "list"
  /\ shown' = fattostr(entry) /\ names_pc' = "listed"
  /\ UNCHANGED <<entry, src, dest, src_i, dest_j>>

Look ==
  /\ names_pc = "listed"
  /\ src' \in {shown, WithoutDot(entry)}
  /\ dest' = [k \in 1 .. Size |-> Blank]
  /\ names_pc' = "convert"
  /\ UNCHANGED <<entry, shown, src_i, dest_j>>

\* A dot leads to the extension, if it comes early enough.
\* Mutant: it may follow a full base.
SeparatesFull(k) == src[k] = DotLetter /\ k <= Base + 1
Separates(k)     == src[k] = DotLetter /\ k <= Base

InLoop == dest_j < Size /\ src_i < Len(src)

Take ==
  /\ names_pc = "convert" /\ InLoop
  /\ IF Separates(src_i + 1)
     THEN dest_j' = Base /\ UNCHANGED dest
     ELSE dest_j' = dest_j + 1 /\ dest' = [dest EXCEPT ![dest_j + 1] = Capital(src[src_i + 1])]
  /\ src_i' = src_i + 1
  /\ UNCHANGED <<entry, shown, src, names_pc>>

Looked ==
  /\ names_pc = "convert" /\ ~InLoop
  /\ names_pc' = "looked"
  /\ UNCHANGED <<entry, shown, src, dest, src_i, dest_j>>

ShortNamesNext == List \/ Look \/ Take \/ Looked

ShortNamesSpec == ShortNamesInit /\ [][ShortNamesNext]_namesVars

-----------------------------------------------------------------------------
FullBase == entry[Base] # Blank
HasExt   == entry[Base + 1] # Blank

\* A name that was listed is found again, unless it has a base of full length and
\* an extension: the dot behind eight characters is taken for one of the extension
\* (ksrc/fs/fat.c:75-86).
FoundAgain ==
  names_pc = "looked" /\ src = shown => (dest = entry <=> ~(FullBase /\ HasExt))

\* Such a name is found without its dot.
FoundWithoutDot ==
  names_pc = "looked" /\ src = WithoutDot(entry) /\ FullBase => dest = entry

\* A listing never gives two entries the same name (ksrc/fs/fat.c:90-127).
ListedApart == names_pc # "list" => \A e \in Entries : fattostr(e) = shown => e = entry

\* The two conversions are inverses as far as the driver's two uses of them need it:
\* exactly the names with a full base and an extension get lost between a listing
\* and a look-up, and no two names are confused (ksrc/fs/fat.c:69-127).
Renaming == FoundAgain /\ FoundWithoutDot /\ ListedApart

=============================================================================
