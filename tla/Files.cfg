SPECIFICATION Spec
CONSTANTS
    Names <- MCNames
    Fold <- MCFold
    BuildRoot <- MCBuildRoot
    Places <- MCPlaces
    Listable <- MCListable
    Side <- MCSide
INVARIANT ListingsFresh
 
