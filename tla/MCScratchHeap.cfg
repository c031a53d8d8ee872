\* Two pointers, each with a second block while it moves; two sizes of one class,
\* a smaller class, and a size that needs a mapping of its own.
CONSTANTS
  h1 = h1
  h2 = h2
  NoBlock = NoBlock
  Handles = {h1, h2}
  Sizes = {1, 3, 4, 5}
  Classes = {1, 4}
  Page = 2
  FirstChunk = 2
  Chunk = 6
  MaxChunks = 2
  MaxMappings = 2
  Region <- MCRegion
SPECIFICATION Spec
INVARIANT BlocksAreApart
INVARIANT BlocksFit
INVARIANT SystemFreesItsOwn
SYMMETRY MCSymmetry
