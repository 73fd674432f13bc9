SPECIFICATION Spec
CONSTANTS
  logo = logo
  photo = photo
  images = images
  a = a
  b = b
  x = x
  y = y
  z = z
  Path = {logo, photo}
  Dir = {images}
  Root = Root
  Parent <- OneBelow
  Data = {a, b}
  NoFile = NoFile
  Torn = Torn
  Call = {x, y, z}
SYMMETRY Symmetry
INVARIANTS TypeOK NoDebris
PROPERTIES DeleteAllDeletes ListingComplete ObjectSpec
CHECK_DEADLOCK FALSE
