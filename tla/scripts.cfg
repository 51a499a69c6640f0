SPECIFICATION Spec
CONSTANTS
  Files = {"f"}
  Bits = {"w"}
  Masks <- MCMasks
  Programs <- MCPrograms
  MaxOpen = 2
  MaxSaved = 2
  MaxText = 2
PROPERTIES MaskScoped WritesBack NoclobberKeeps
